---------------------------- MODULE Spec2Model ----------------------------
(***************************************************************************)
(* NEXUS PROTOCOL: the in-memory StateManager (backend/state.py), the      *)
(* WebSocketManager (backend/websocket_manager.py) and the ChaosEngine     *)
(* scenario state machine (chaos_engine/main.py).                          *)
(*                                                                         *)
(* Units.  error_rate is kept in units of 1/10000 (0.02 is 200),           *)
(* system_integrity in tenths of a percent (80.0 is 800), positions in     *)
(* hundredths.  Timestamps are integers: the aggregator's clock is `now',  *)
(* a producer stamps its events with its own clock.                        *)
(***************************************************************************)
EXTENDS Integers, Sequences, FiniteSets

VARIABLES
    \* ---- StateManager (backend/state.py)
    services,          \* service_id -> ServiceState
    recent_events,     \* bounded history, oldest first
    active_incidents,  \* counter
    snapshot,          \* the SystemState last returned by get_system_state
    returned,          \* the last get_recent_events call: its limit and its result
    now,               \* the aggregator's clock: one tick per call
    applied,           \* history variable: every event ever applied, in order
    manual,            \* history variable: ids last written by set_service_status
    lastCall,          \* history variable: the last call, with the state before it
    \* ---- ChaosEngine (chaos_engine/main.py)
    mode,              \* the scenario mode
    service_states,    \* service_id -> assigned status
    timers,            \* pending call_later callbacks: a bag of (callback, time left)
    since,             \* history variable: time since the last set_mode call
    entered,           \* history variable: time since the mode last became recovery
    lastStep,          \* history variable: the last engine step, with the state before
    \* ---- WebSocketManager (backend/websocket_manager.py)
    active_connections, \* the dict's keys (client ids) in insertion order
    lockHolder,        \* the task holding WebSocketManager._lock, or NoTask
    lockWaiters,       \* the tasks waiting for it, first come first
    pc,                \* task -> where the task is suspended
    faulty,            \* the sockets whose send_json raises
    inbox,             \* client -> the messages delivered to it, in order
    bcast,             \* broadcast task -> its loop state and (history) its record
    \* ---- the request handlers and loops of backend/main.py
    smLock,            \* the task inside `async with StateManager._lock', or NoTask
    job,               \* task -> what its handler is doing: kind, arguments, message
    \* ---- lifespan and the background tasks (backend/main.py, kafka_consumer.py)
    settings,          \* which Kafka settings are set, and whether Consumer() can be built
    kafka_consumer,    \* KafkaConsumer: enabled, consumer (present or None), running
    background_tasks,  \* the dict's keys (tasks) in insertion order
    phase,             \* lifespan: startup, serving, shutdown, complete
    awaited,           \* shutdown: index of the task being cancelled and awaited
    cancelling,        \* tasks with a CancelledError to be thrown at their suspension
    iterations,        \* history variable: task -> loop iterations started
    atCancel,          \* history variable: task -> iterations when cancel() was called
    fed,               \* history variable: source -> events given to process_telemetry_event
    polled,            \* history variable: the last message poll() gave the consumer
    running,           \* ChaosEngine.running of the engine of run_simulation_mode
    generated          \* history variable: the last event generate_event returned

smVars == <<services, recent_events, active_incidents, snapshot, returned, now,
            applied, manual, lastCall>>

ceVars == <<mode, service_states, timers, since, entered, lastStep>>

wsVars == <<active_connections, lockHolder, lockWaiters, pc, faulty, inbox, bcast>>

appVars == <<smLock, job>>

lifeVars == <<settings, kafka_consumer, background_tasks, phase, awaited, cancelling,
              iterations, atCancel, fed, polled, running, generated>>

vars == <<smVars, ceVars, wsVars, appVars, lifeVars>>

-----------------------------------------------------------------------------
(* Bounds of the model *)

\* calls made on the StateManager in one run
MaxOps == 3
\* events already applied when a history run starts
PrefillLen == 98
\* offset of the producers' clock from the aggregator's
ProducerSkew == 100
\* call_later callbacks pending at once in the ChaosEngine
MaxTimers == 2
\* the time since the last set_mode call is tracked up to this
SinceCap == 4
\* websocket clients that connect in one run
MaxClients == 2
\* broadcast calls made in one run
MaxBroadcasts == 1
\* the largest limit passed to get_recent_events
MaxLimit == 4

-----------------------------------------------------------------------------
(* backend/models.py, backend/state.py: constants *)

HEALTHY == "healthy"
WARNING == "warning"
CRITICAL == "critical"
ServiceStatus == {HEALTHY, WARNING, CRITICAL}

\* The registry, in dict insertion order.
ServiceOrder == <<"gateway", "auth", "payment", "ai-brain", "database">>
ServiceIds == {ServiceOrder[i] : i \in 1..Len(ServiceOrder)}

SERVICE_POSITIONS ==
    [s \in ServiceIds |->
        CASE s = "gateway"  -> <<0, 0, 500>>
          [] s = "auth"     -> <<476, 0, 155>>
          [] s = "payment"  -> <<294, 0, -405>>
          [] s = "ai-brain" -> <<-294, 0, -405>>
          [] s = "database" -> <<-476, 0, 155>>]

max_events == 100

\* The healthy baseline written by _initialize_services and by a HEALTHY override.
BaselineLatency == 500
BaselineErrorRate == 200
BaselineTraffic == 75

BaselineState(service_id, t) ==
    [service_id     |-> service_id,
     status         |-> HEALTHY,
     latency_ms     |-> BaselineLatency,
     error_rate     |-> BaselineErrorRate,
     traffic_volume |-> BaselineTraffic,
     last_updated   |-> t,
     position       |-> SERVICE_POSITIONS[service_id]]

InitialServices == [s \in ServiceIds |-> BaselineState(s, 0)]

-----------------------------------------------------------------------------
(* Inputs: the telemetry events a run draws from *)

\* ids events and overrides name: two of the registry and one outside it
InputIdSeq == <<"ai-brain", "payment", "billing">>
InputIds == {InputIdSeq[i] : i \in 1..Len(InputIdSeq)}

\* status and metrics of an event, the field bounds of TelemetryEvent included
EventSampleSeq ==
    << [status |-> CRITICAL, latency_ms |-> 10000, error_rate |-> 10000, traffic_volume |-> 0],
       [status |-> WARNING,  latency_ms |-> 1500,  error_rate |-> 700,   traffic_volume |-> 45],
       [status |-> HEALTHY,  latency_ms |-> 0,     error_rate |-> 0,     traffic_volume |-> 100] >>
EventSamples == {EventSampleSeq[i] : i \in 1..Len(EventSampleSeq)}

MakeEvent(service_id, sample, timestamp) ==
    [timestamp      |-> timestamp,
     service_id     |-> service_id,
     status         |-> sample.status,
     latency_ms     |-> sample.latency_ms,
     error_rate     |-> sample.error_rate,
     traffic_volume |-> sample.traffic_volume]

-----------------------------------------------------------------------------
(* StateManager: the pure parts of each method *)

EventState_OriginPosition(event) ==
    [service_id     |-> event.service_id,
     status         |-> event.status,
     latency_ms     |-> event.latency_ms,
     error_rate     |-> event.error_rate,
     traffic_volume |-> event.traffic_volume,
     last_updated   |-> event.timestamp,
     position       |-> <<0, 0, 0>>]

\* update_from_event: the ServiceState built from an event
EventState(event) ==
    [service_id     |-> event.service_id,
     status         |-> event.status,
     latency_ms     |-> event.latency_ms,
     error_rate     |-> event.error_rate,
     traffic_volume |-> event.traffic_volume,
     last_updated   |-> event.timestamp,
     position       |-> IF event.service_id \in DOMAIN SERVICE_POSITIONS
                        THEN SERVICE_POSITIONS[event.service_id]
                        ELSE <<0, 0, 0>>]

ServicesAfterEvent_SkipSameStatus(svcs, event) ==
    IF event.service_id \in DOMAIN svcs
       /\ svcs[event.service_id].status # event.status
    THEN [svcs EXCEPT ![event.service_id] = EventState(event)]
    ELSE svcs

\* update_from_event: the services map after the event
ServicesAfterEvent(svcs, event) ==
    IF event.service_id \in DOMAIN svcs
    THEN [svcs EXCEPT ![event.service_id] = EventState(event)]
    ELSE svcs

PushEvent_EvictAtCapacity(history, event) ==
    LET appended == Append(history, event)
    IN  IF Len(appended) >= max_events THEN Tail(appended) ELSE appended

\* update_from_event: append, then pop(0) when over max_events
PushEvent(history, event) ==
    LET appended == Append(history, event)
    IN  IF Len(appended) > max_events THEN Tail(appended) ELSE appended

OverrideState_KeepMetrics(current, status, t) ==
    [current EXCEPT !.status = status, !.last_updated = t]

\* set_service_status: the ServiceState that replaces `current'
OverrideState(current, status, t) ==
    [service_id     |-> current.service_id,
     status         |-> status,
     latency_ms     |-> IF status = HEALTHY THEN BaselineLatency ELSE current.latency_ms,
     error_rate     |-> IF status = HEALTHY THEN BaselineErrorRate ELSE current.error_rate,
     traffic_volume |-> IF status = HEALTHY THEN BaselineTraffic ELSE current.traffic_volume,
     last_updated   |-> t,
     position       |-> current.position]

ServicesAfterOverride_AddsUnknown(svcs, service_id, status, t) ==
    [s \in DOMAIN svcs \cup {service_id} |->
        IF s # service_id THEN svcs[s]
        ELSE IF s \in DOMAIN svcs THEN OverrideState(svcs[s], status, t)
        ELSE [BaselineState("ai-brain", t) EXCEPT !.service_id = s, !.status = status]]

\* set_service_status: the services map after the override
ServicesAfterOverride(svcs, service_id, status, t) ==
    IF service_id \in DOMAIN svcs
    THEN [svcs EXCEPT ![service_id] = OverrideState(svcs[service_id], status, t)]
    ELSE svcs

Incremented_Lowers(n) == IF n > 0 THEN n - 1 ELSE n + 1

\* increment_incidents: self.active_incidents += 1
Incremented(n) == n + 1

Decremented_Unguarded(n) == n - 1

\* decrement_incidents: the counter after the call
Decremented(n) == IF n > 0 THEN n - 1 ELSE n

\* list(self.services.values())
ServicesList(svcs) == [i \in 1..Len(ServiceOrder) |-> svcs[ServiceOrder[i]]]

HealthyCount_NotCritical(list) ==
    Cardinality({i \in 1..Len(list) : list[i].status # CRITICAL})

\* sum(1 for s in services if s.status == HEALTHY)
HealthyCount(list) == Cardinality({i \in 1..Len(list) : list[i].status = HEALTHY})

\* round(x, 1) of the fraction num/den, in tenths (ties to even, as Python rounds)
Round1(num, den) ==
    LET q == (num * 10) \div den
        r == (num * 10) % den
    IN  IF 2 * r < den THEN q
        ELSE IF 2 * r > den THEN q + 1
        ELSE IF q % 2 = 0 THEN q ELSE q + 1

\* get_system_state: integrity = healthy / total * 100 (0 with no services), rounded
Integrity(list) ==
    IF Len(list) > 0 THEN Round1(HealthyCount(list) * 100, Len(list)) ELSE 0

\* get_system_state: the SystemState returned
SystemState(svcs, incidents, t) ==
    LET list == ServicesList(svcs)
    IN  [timestamp        |-> t,
         system_integrity |-> Integrity(list),
         services         |-> list,
         active_incidents |-> incidents]

\* seq[start:] of Python, start counted from 0: a negative start counts from
\* the end, and a start outside the list is clipped to it
SliceFrom(seq, start) ==
    LET from == IF start < 0
                THEN (IF start + Len(seq) < 0 THEN 0 ELSE start + Len(seq))
                ELSE (IF start > Len(seq) THEN Len(seq) ELSE start)
    IN  SubSeq(seq, from + 1, Len(seq))

\* get_recent_events: self.recent_events[-limit:]
RecentEvents(history, limit) == SliceFrom(history, 0 - limit)

NoReturn == [limit |-> -1, events |-> <<>>, before |-> <<>>]

NoSnapshot == [timestamp |-> -1, system_integrity |-> 0, services |-> <<>>,
               active_incidents |-> 0]

Held_SharesRegistry(snap, svcs, incidents) ==
    IF snap = NoSnapshot THEN snap
    ELSE [snap EXCEPT !.services = ServicesList(svcs), !.active_incidents = incidents]

\* what a SystemState already returned holds once the registry has become svcs
\* and the counter incidents: its list was copied out of the dict by
\* list(self.services.values()), every write stores a new ServiceState under
\* the key and assigns no field of an old one, and active_incidents was passed
\* as an int
Held(snap, svcs, incidents) == snap

NoCall == [op |-> "none", id |-> "", status |-> "", pre |-> InitialServices]

-----------------------------------------------------------------------------
(* ChaosEngine (chaos_engine/main.py): the scenario state machine.         *)
(* set_mode and the call_later callbacks are plain functions: each runs to *)
(* completion as one step of the event loop.  A pending callback is kept   *)
(* with the time left until it is due; time does not pass a due callback,  *)
(* and callbacks due at the same instant run in either order.              *)

valid_modes == {"steady_state", "latency_spike", "cascading_failure", "recovery"}

\* mode names a caller may pass: the four valid ones and one that is not
ModeInputs == valid_modes \cup {"meltdown"}

\* the delay of every call_later in the engine
Delay == 2

Callbacks == {"_escalate_cascade", "_final_cascade", "_complete_recovery"}
CascadeCallbacks == {"_escalate_cascade", "_final_cascade"}

\* A pending timer: the callback, the time left, and (history) whether the mode
\* it was scheduled under has been switched away from since.
TimerKeys == [cb : Callbacks, rem : 0..Delay, stale : BOOLEAN]

NoTimers == [k \in TimerKeys |-> 0]

TimerCount(tm) ==
    LET RECURSIVE Sum(_)
        Sum(S) == IF S = {} THEN 0
                  ELSE LET k == CHOOSE x \in S : TRUE IN tm[k] + Sum(S \ {k})
    IN  Sum(TimerKeys)

AllHealthyStates == [s \in ServiceIds |-> HEALTHY]

\* loop.call_later(Delay, cb)
CallLater(tm, cb) ==
    LET k == [cb |-> cb, rem |-> Delay, stale |-> FALSE]
    IN  [tm EXCEPT ![k] = @ + 1]

\* history: a set_mode(m) call supersedes the timers scheduled under another mode
Superseded(cb, m) ==
    \/ cb \in CascadeCallbacks /\ m # "cascading_failure"
    \/ cb = "_complete_recovery" /\ m # "recovery"

MarkStale(tm, m) ==
    [k \in TimerKeys |->
        IF k.stale
        THEN tm[k] + (IF Superseded(k.cb, m) THEN tm[[k EXCEPT !.stale = FALSE]] ELSE 0)
        ELSE IF Superseded(k.cb, m) THEN 0 ELSE tm[k]]

\* _trigger_cascade: the statuses it assigns
TriggerCascadeStates(st) ==
    [st EXCEPT !["ai-brain"] = CRITICAL, !["payment"] = WARNING]

\* _escalate_cascade: the statuses it assigns when its mode guard passes
EscalateStates(st) ==
    [st EXCEPT !["payment"] = CRITICAL, !["auth"] = WARNING]

FinalStates_DatabaseCritical(st) ==
    [st EXCEPT !["auth"] = CRITICAL, !["database"] = CRITICAL]

\* _final_cascade: the statuses it assigns when its mode guard passes
FinalStates(st) ==
    [st EXCEPT !["auth"] = CRITICAL, !["database"] = WARNING]

BeginRecoveryStates_OnlyInference(st) ==
    [s \in DOMAIN st |-> IF s = "ai-brain" /\ st[s] = CRITICAL THEN WARNING ELSE st[s]]

\* _begin_recovery: every critical service becomes warning
BeginRecoveryStates(st) ==
    [s \in DOMAIN st |-> IF st[s] = CRITICAL THEN WARNING ELSE st[s]]

CascadeGuard_Unguarded(m) == TRUE

\* the mode guard of _escalate_cascade and of _final_cascade
CascadeGuard(m) == m = "cascading_failure"

RecoveryGuard_Unguarded(m) == TRUE

\* the mode guard of _complete_recovery
RecoveryGuard(m) == m = "recovery"

ModeRejected_Never(m) == FALSE

\* set_mode: `if mode not in valid_modes`
ModeRejected(m) == m \notin valid_modes

NoStep == [op |-> "none", arg |-> "", stale |-> FALSE,
           premode |-> "steady_state", pre |-> AllHealthyStates]

InitEngine ==
    /\ mode = "steady_state"
    /\ service_states = AllHealthyStates
    /\ timers = NoTimers
    /\ since = 0
    /\ entered = 0
    /\ lastStep = NoStep

\* set_mode(m)
set_mode(m) ==
    /\ lastStep' = [op |-> "set_mode", arg |-> m, stale |-> FALSE,
                    premode |-> mode, pre |-> service_states]
    /\ IF ModeRejected(m)
       THEN \* raise ValueError
            UNCHANGED <<mode, service_states, timers, since, entered>>
       ELSE /\ mode' = m
            /\ since' = 0
            /\ entered' = IF m = "recovery" /\ mode # "recovery" THEN 0 ELSE entered
            /\ CASE m = "steady_state" ->
                      /\ service_states' = AllHealthyStates
                      /\ timers' = MarkStale(timers, m)
                 [] m = "latency_spike" ->
                      /\ service_states' = [service_states EXCEPT !["ai-brain"] = CRITICAL]
                      /\ timers' = MarkStale(timers, m)
                 [] m = "cascading_failure" ->
                      /\ TimerCount(timers) < MaxTimers
                      /\ service_states' = TriggerCascadeStates(service_states)
                      /\ timers' = CallLater(MarkStale(timers, m), "_escalate_cascade")
                 [] m = "recovery" ->
                      /\ TimerCount(timers) < MaxTimers
                      /\ service_states' = BeginRecoveryStates(service_states)
                      /\ timers' = CallLater(MarkStale(timers, m), "_complete_recovery")
                 [] OTHER ->
                      \* no branch of the if/elif chain is taken
                      /\ service_states' = service_states
                      /\ timers' = MarkStale(timers, m)

SetMode == \E m \in ModeInputs : set_mode(m) /\ UNCHANGED <<smVars, wsVars, appVars, lifeVars>>

\* the event loop runs one callback that is due
FireTimer ==
    \E k \in TimerKeys :
        /\ timers[k] > 0
        /\ k.rem = 0
        /\ lastStep' = [op |-> k.cb, arg |-> "", stale |-> k.stale,
                        premode |-> mode, pre |-> service_states]
        /\ LET rest == [timers EXCEPT ![k] = @ - 1]
           IN  CASE k.cb = "_escalate_cascade" ->
                     IF CascadeGuard(mode)
                     THEN /\ service_states' = EscalateStates(service_states)
                          /\ timers' = CallLater(rest, "_final_cascade")
                          /\ UNCHANGED mode
                     ELSE /\ timers' = rest
                          /\ UNCHANGED <<mode, service_states>>
                [] k.cb = "_final_cascade" ->
                     IF CascadeGuard(mode)
                     THEN /\ service_states' = FinalStates(service_states)
                          /\ timers' = rest
                          /\ UNCHANGED mode
                     ELSE /\ timers' = rest
                          /\ UNCHANGED <<mode, service_states>>
                [] k.cb = "_complete_recovery" ->
                     IF RecoveryGuard(mode)
                     THEN /\ service_states' = AllHealthyStates
                          /\ mode' = "steady_state"
                          /\ timers' = rest
                     ELSE /\ timers' = rest
                          /\ UNCHANGED <<mode, service_states>>
        /\ UNCHANGED <<since, entered>>
        /\ UNCHANGED <<smVars, wsVars, appVars, lifeVars>>

NoneDue == \A k \in TimerKeys : k.rem = 0 => timers[k] = 0

\* one time-unit passes: allowed only when no pending callback is due
Tick ==
    /\ NoneDue
    /\ timers' = [k \in TimerKeys |->
                     IF k.rem = Delay THEN 0
                     ELSE timers[[k EXCEPT !.rem = k.rem + 1]]]
    /\ since' = IF since < SinceCap THEN since + 1 ELSE since
    /\ entered' = IF entered < SinceCap THEN entered + 1 ELSE entered
    /\ UNCHANGED <<mode, service_states, lastStep>>
    /\ UNCHANGED <<smVars, wsVars, appVars, lifeVars>>

NextChaos ==
    \/ SetMode
    \/ FireTimer
    \/ Tick

-----------------------------------------------------------------------------
(* WebSocketManager (backend/websocket_manager.py).                        *)
(* Tasks are asyncio tasks: one runs until it suspends.  A task suspends    *)
(* in websocket.accept(), in send_json() and in acquiring a lock that is    *)
(* held or has waiters; an uncontended acquire does not suspend.  The lock  *)
(* is asyncio.Lock: release hands it to the first waiter.                   *)

Clients == {<<"client", i>> : i \in 1..MaxClients}
Broadcasters == {<<"broadcast", j>> : j \in 1..MaxBroadcasts}
\* the tasks of backend/main.py that broadcast: an iteration of
\* broadcast_state_loop, and a request (apply_remediation or datadog_webhook)
HandlerKinds == {"tick", "request"}
Handlers == {<<kind, 0>> : kind \in HandlerKinds}

\* the background tasks of lifespan: broadcast_state_loop, kafka_consumer.start,
\* run_simulation_mode
TickTask == <<"tick", 0>>
KafkaTask == <<"kafka", 0>>
SimulationTask == <<"simulation", 0>>
Loops == {KafkaTask, SimulationTask}
BackgroundTasks == {TickTask} \cup Loops
Tasks == Clients \cup Broadcasters \cup Handlers \cup Loops
NoTask == <<"none", 0>>

\* the message a broadcast call carries: broadcast_state_update,
\* broadcast_alert and broadcast_remediation_result in turn
BroadcastTypes == <<"state_update", "alert", "remediation_result">>
BroadcastMessage(b) ==
    IF b \in Handlers THEN job[b].message
    ELSE [type |-> BroadcastTypes[((b[2] - 1) % Len(BroadcastTypes)) + 1], from |-> b[2]]

AckMessage(c) == [type |-> "connection_ack", from |-> c[2]]

SeqToSet(seq) == {seq[i] : i \in 1..Len(seq)}

\* the sequence without the members of a set, order kept
RECURSIVE Without(_, _)
Without(seq, S) ==
    IF seq = <<>> THEN <<>>
    ELSE IF Head(seq) \in S THEN Without(Tail(seq), S)
    ELSE <<Head(seq)>> \o Without(Tail(seq), S)

Prune_FirstOnly(conns, disconnected) ==
    IF disconnected = <<>> THEN conns ELSE Without(conns, {Head(disconnected)})

\* broadcast: for client_id in disconnected: del self.active_connections[client_id]
Prune(conns, disconnected) == Without(conns, SeqToSet(disconnected))

Acquires_Always(holder) == TRUE

\* `async with self._lock': the body is entered at once when no task holds
\* the lock; otherwise the caller queues for it
Acquires(holder) == holder = NoTask

PassHolder_Released(b) == NoTask

\* broadcast: the holder of the lock while the loop awaits each send_json;
\* the whole loop and the clean-up are inside `async with self._lock'
PassHolder(b) == b

Registered_Always(conns, client_id) == TRUE

\* send_personal: `if client_id in self.active_connections'
Registered(conns, client_id) == client_id \in SeqToSet(conns)

\* asyncio.Lock.release: the lock passes to the first waiter, if any
ReleasedHolder == IF lockWaiters = <<>> THEN NoTask ELSE Head(lockWaiters)
ReleasedWaiters == IF lockWaiters = <<>> THEN <<>> ELSE Tail(lockWaiters)

IdleBroadcast == [idx |-> 0, disconnected |-> <<>>, entry |-> <<>>,
                  delivered |-> {}, after |-> <<>>]

InitSockets ==
    /\ active_connections = <<>>
    /\ lockHolder = NoTask
    /\ lockWaiters = <<>>
    /\ pc = [t \in Tasks |-> IF t \in Clients THEN "accepting"
                             ELSE IF t \in Broadcasters THEN "ready" ELSE "idle"]
    /\ faulty = {}
    /\ inbox = [c \in Clients |-> <<>>]
    /\ bcast = [b \in Broadcasters \cup Handlers |-> IdleBroadcast]

\* connect: accept() has returned; register under the lock, then go on to
\* send_personal(connection_ack), which takes the lock again
ConnectRegister(c) ==
    /\ pc[c] = "accepting"
    /\ IF Acquires(lockHolder)
       THEN /\ active_connections' = Append(active_connections, c)
            /\ lockHolder' = c
            /\ pc' = [pc EXCEPT ![c] = "ack_send"]
            /\ UNCHANGED lockWaiters
       ELSE /\ lockWaiters' = Append(lockWaiters, c)
            /\ pc' = [pc EXCEPT ![c] = "wait_register"]
            /\ UNCHANGED <<active_connections, lockHolder>>
    /\ UNCHANGED <<faulty, inbox, bcast>>

\* connect: the lock is granted; register, release, and call send_personal
ConnectRegistered(c) ==
    /\ pc[c] = "wait_register"
    /\ lockHolder = c
    /\ active_connections' = Append(active_connections, c)
    /\ IF lockWaiters = <<>>
       THEN /\ pc' = [pc EXCEPT ![c] = "ack_send"]
            /\ UNCHANGED <<lockHolder, lockWaiters>>
       ELSE /\ lockHolder' = Head(lockWaiters)
            /\ lockWaiters' = Append(Tail(lockWaiters), c)
            /\ pc' = [pc EXCEPT ![c] = "wait_ack"]
    /\ UNCHANGED <<faulty, inbox, bcast>>

\* send_personal(connection_ack): the lock is granted; send if still registered
ConnectAckGranted(c) ==
    /\ pc[c] = "wait_ack"
    /\ lockHolder = c
    /\ IF Registered(active_connections, c)
       THEN /\ pc' = [pc EXCEPT ![c] = "ack_send"]
            /\ UNCHANGED <<lockHolder, lockWaiters>>
       ELSE /\ pc' = [pc EXCEPT ![c] = "connected"]
            /\ lockHolder' = ReleasedHolder
            /\ lockWaiters' = ReleasedWaiters
    /\ UNCHANGED <<active_connections, faulty, inbox, bcast>>

\* A send_json on c's socket: it returns (ok) or raises.  A socket that has
\* raised is closed and raises from then on; a socket fails at any time, which
\* shows only at its next send.
SendOutcomes(c) == IF c \in faulty THEN {FALSE} ELSE {TRUE, FALSE}

PersonalFailure_DropOthers(conns, c) ==
    IF c \in SeqToSet(conns) THEN <<c>> ELSE <<>>

\* send_personal: the except branch logs the error and leaves the dict as it is
PersonalFailure(conns, c) == conns

\* send_personal(connection_ack): send_json returns or raises (logged); connect returns
ConnectAckSent(c) ==
    /\ pc[c] = "ack_send"
    /\ \E ok \in SendOutcomes(c) :
          /\ inbox' = IF ok THEN [inbox EXCEPT ![c] = Append(@, AckMessage(c))] ELSE inbox
          /\ faulty' = IF ok THEN faulty ELSE faulty \cup {c}
          /\ active_connections' = IF ok THEN active_connections
                                    ELSE PersonalFailure(active_connections, c)
    /\ pc' = [pc EXCEPT ![c] = "connected"]
    /\ lockHolder' = ReleasedHolder
    /\ lockWaiters' = ReleasedWaiters
    /\ UNCHANGED bcast

Disconnected_DropsLast(conns, client_id) ==
    IF client_id \in SeqToSet(conns)
    THEN Without(conns, {client_id})
    ELSE SubSeq(conns, 1, Len(conns) - 1)

\* disconnect, inside the lock: the dict after `if client_id in
\* self.active_connections: del self.active_connections[client_id]'
Disconnected(conns, client_id) ==
    IF client_id \in SeqToSet(conns)
    THEN Without(conns, {client_id})
    ELSE conns

\* disconnect(client_id), called by the endpoint of a connected client
Disconnect(c) ==
    /\ pc[c] = "connected"
    /\ IF Acquires(lockHolder)
       THEN /\ active_connections' = Disconnected(active_connections, c)
            /\ pc' = [pc EXCEPT ![c] = "closed"]
            /\ UNCHANGED lockWaiters
       ELSE /\ lockWaiters' = Append(lockWaiters, c)
            /\ pc' = [pc EXCEPT ![c] = "wait_disconnect"]
            /\ UNCHANGED active_connections
    /\ UNCHANGED <<lockHolder, faulty, inbox, bcast>>

\* disconnect: the lock is granted
DisconnectGranted(c) ==
    /\ pc[c] = "wait_disconnect"
    /\ lockHolder = c
    /\ active_connections' = Disconnected(active_connections, c)
    /\ pc' = [pc EXCEPT ![c] = "closed"]
    /\ lockHolder' = ReleasedHolder
    /\ lockWaiters' = ReleasedWaiters
    /\ UNCHANGED <<faulty, inbox, bcast>>

\* broadcast, inside the lock: return at once with no connections, else start the loop
BroadcastEnter(b) ==
    IF active_connections = <<>>
    THEN /\ pc' = [pc EXCEPT ![b] = "done"]
         /\ lockHolder' = ReleasedHolder
         /\ lockWaiters' = ReleasedWaiters
         /\ UNCHANGED bcast
    ELSE /\ pc' = [pc EXCEPT ![b] = "send"]
         /\ lockHolder' = PassHolder(b)
         /\ UNCHANGED lockWaiters
         /\ bcast' = [bcast EXCEPT ![b] =
                          [IdleBroadcast EXCEPT !.idx = 1, !.entry = active_connections]]

\* await self.broadcast(message): enter the lock, or queue for it
broadcast(b) ==
    IF Acquires(lockHolder)
    THEN BroadcastEnter(b)
    ELSE /\ lockWaiters' = Append(lockWaiters, b)
         /\ pc' = [pc EXCEPT ![b] = "wait"]
         /\ UNCHANGED <<lockHolder, bcast>>

\* broadcast(message) is called
BroadcastStart(b) ==
    /\ pc[b] = "ready"
    /\ broadcast(b)
    /\ UNCHANGED <<active_connections, faulty, inbox>>

\* broadcast: the lock is granted
BroadcastGranted(b) ==
    /\ pc[b] = "wait"
    /\ lockHolder = b
    /\ BroadcastEnter(b)
    /\ UNCHANGED <<active_connections, faulty, inbox>>

\* broadcast: one send_json of the loop returns or raises; after the last one
\* the disconnected clients are deleted and the lock is released
BroadcastSend(b) ==
    /\ pc[b] = "send"
    /\ IF Len(active_connections) # Len(bcast[b].entry)
       THEN \* RuntimeError: dictionary changed size during iteration
            /\ pc' = [pc EXCEPT ![b] = "raised"]
            /\ lockHolder' = ReleasedHolder
            /\ lockWaiters' = ReleasedWaiters
            /\ UNCHANGED <<active_connections, inbox, bcast, faulty>>
       ELSE \E ok \in SendOutcomes(active_connections[bcast[b].idx]) :
            LET c == active_connections[bcast[b].idx]
                disc == IF ok THEN bcast[b].disconnected
                        ELSE Append(bcast[b].disconnected, c)
                last == bcast[b].idx = Len(active_connections)
                conns == IF last THEN Prune(active_connections, disc)
                         ELSE active_connections
            IN  /\ inbox' = IF ok THEN [inbox EXCEPT ![c] = Append(@, BroadcastMessage(b))]
                            ELSE inbox
                /\ faulty' = IF ok THEN faulty ELSE faulty \cup {c}
                /\ active_connections' = conns
                /\ bcast' = [bcast EXCEPT ![b] =
                                [idx |-> IF last THEN @.idx ELSE @.idx + 1,
                                 disconnected |-> disc,
                                 entry |-> @.entry,
                                 delivered |-> IF ok THEN @.delivered \cup {c} ELSE @.delivered,
                                 after |-> IF last THEN conns ELSE @.after]]
                /\ IF last
                   THEN /\ pc' = [pc EXCEPT ![b] = "done"]
                        /\ lockHolder' = ReleasedHolder
                        /\ lockWaiters' = ReleasedWaiters
                   ELSE UNCHANGED <<pc, lockHolder, lockWaiters>>

\* the other components stand still while the WebSocketManager steps
SocketsOnly == UNCHANGED <<smVars, ceVars, appVars, lifeVars>>

NextSockets ==
    \/ \E c \in Clients : ConnectRegister(c) /\ SocketsOnly
    \/ \E c \in Clients : ConnectRegistered(c) /\ SocketsOnly
    \/ \E c \in Clients : ConnectAckGranted(c) /\ SocketsOnly
    \/ \E c \in Clients : ConnectAckSent(c) /\ SocketsOnly
    \/ \E c \in Clients : Disconnect(c) /\ SocketsOnly
    \/ \E c \in Clients : DisconnectGranted(c) /\ SocketsOnly
    \/ \E b \in Broadcasters : BroadcastStart(b) /\ SocketsOnly
    \/ \E b \in Broadcasters : BroadcastGranted(b) /\ SocketsOnly
    \/ \E b \in Broadcasters : BroadcastSend(b) /\ SocketsOnly

-----------------------------------------------------------------------------
(* StateManager: the methods.  Each body runs under self._lock with no     *)
(* await inside it, so each call is one atomic step.                       *)

NoMessage == [type |-> "none"]

NoJob == [kind |-> "none", id |-> "", count |-> 0, snapshots |-> 0,
          snapshot |-> NoSnapshot, message |-> NoMessage, silent |-> 0,
          previous_status |-> "", served |-> 0]

\* config.py: kafka_bootstrap_servers and kafka_sasl_username are set (non-empty)
\* or empty; ctor: Consumer(settings.kafka_config) returns, or raises.  The
\* user name is read only with the servers set, the constructor is called
\* only with both set.
Settings == {s \in [servers : BOOLEAN, sasl : BOOLEAN, ctor : BOOLEAN] :
                 /\ s.sasl => s.servers
                 /\ ~s.ctor => s.sasl}

\* config.py: kafka_bootstrap_servers = "localhost:9092", kafka_sasl_username = ""
DefaultSettings == [servers |-> TRUE, sasl |-> FALSE, ctor |-> TRUE]

\* KafkaConsumer.__init__
KafkaInit(s) ==
    LET enabled == s.servers
    IN  IF enabled /\ s.sasl
        THEN IF s.ctor
             THEN [enabled |-> TRUE, consumer |-> TRUE, running |-> FALSE]
             ELSE [enabled |-> FALSE, consumer |-> FALSE, running |-> FALSE]
        ELSE [enabled |-> enabled, consumer |-> FALSE, running |-> FALSE]

\* before lifespan starts: the module-level kafka_consumer and background_tasks
InitLife(s) ==
    /\ settings = s
    /\ kafka_consumer = KafkaInit(s)
    /\ background_tasks = <<>>
    /\ phase = "startup"
    /\ awaited = 0
    /\ cancelling = {}
    /\ iterations = [t \in BackgroundTasks |-> 0]
    /\ atCancel = [t \in BackgroundTasks |-> -1]
    /\ fed = [t \in Loops |-> 0]
    /\ polled = NoMessage
    /\ running = FALSE
    /\ generated = NoMessage

InitHandlers ==
    /\ smLock = NoTask
    /\ job = [t \in Handlers \cup Clients |-> NoJob]
    /\ InitLife(DefaultSettings)

InitState ==
    /\ InitEngine
    /\ InitSockets
    /\ InitHandlers
    /\ services = InitialServices
    /\ recent_events = <<>>
    /\ active_incidents = 0
    /\ snapshot = NoSnapshot
    /\ returned = NoReturn
    /\ now = 0
    /\ applied = <<>>
    /\ manual = {}
    /\ lastCall = NoCall

\* update_from_event, inside the lock: the registry and the history
UpdateServices(event) ==
    /\ services' = ServicesAfterEvent(services, event)
    /\ recent_events' = PushEvent(recent_events, event)
    /\ applied' = Append(applied, event)
    /\ manual' = manual \ {event.service_id}
    /\ lastCall' = [op |-> "update_from_event", id |-> event.service_id,
                    status |-> event.status, pre |-> services]
    /\ snapshot' = Held(snapshot, services', active_incidents)
    /\ UNCHANGED <<active_incidents, returned>>

update_from_event(event) ==
    /\ UNCHANGED <<ceVars, wsVars, appVars, lifeVars>>
    /\ UpdateServices(event)

UpdateFromEvent ==
    /\ now < MaxOps
    /\ now' = now + 1
    /\ \E id \in InputIds, sample \in EventSamples :
          update_from_event(MakeEvent(id, sample, ProducerSkew + now))

set_service_status(service_id, status) ==
    /\ UNCHANGED <<ceVars, wsVars, appVars, lifeVars>>
    /\ now < MaxOps
    /\ now' = now + 1
    /\ services' = ServicesAfterOverride(services, service_id, status, now + 1)
    /\ manual' = IF service_id \in DOMAIN services THEN manual \cup {service_id}
                 ELSE manual
    /\ lastCall' = [op |-> "set_service_status", id |-> service_id,
                    status |-> status, pre |-> services]
    /\ snapshot' = Held(snapshot, services', active_incidents)
    /\ UNCHANGED <<recent_events, active_incidents, returned, applied>>

SetServiceStatus ==
    \E id \in InputIds, status \in ServiceStatus : set_service_status(id, status)

get_system_state ==
    /\ UNCHANGED <<ceVars, wsVars, appVars, lifeVars>>
    /\ now < MaxOps
    /\ now' = now + 1
    /\ snapshot' = SystemState(services, active_incidents, now + 1)
    /\ lastCall' = [op |-> "get_system_state", id |-> "", status |-> "", pre |-> services]
    /\ UNCHANGED <<services, recent_events, active_incidents, returned, applied, manual>>

increment_incidents ==
    /\ UNCHANGED <<ceVars, wsVars, appVars, lifeVars>>
    /\ now < MaxOps
    /\ now' = now + 1
    /\ active_incidents' = Incremented(active_incidents)
    /\ lastCall' = [op |-> "increment_incidents", id |-> "", status |-> "", pre |-> services]
    /\ snapshot' = Held(snapshot, services, active_incidents')
    /\ UNCHANGED <<services, recent_events, returned, applied, manual>>

decrement_incidents ==
    /\ UNCHANGED <<ceVars, wsVars, appVars, lifeVars>>
    /\ now < MaxOps
    /\ now' = now + 1
    /\ active_incidents' = Decremented(active_incidents)
    /\ lastCall' = [op |-> "decrement_incidents", id |-> "", status |-> "", pre |-> services]
    /\ snapshot' = Held(snapshot, services, active_incidents')
    /\ UNCHANGED <<services, recent_events, returned, applied, manual>>

get_recent_events(limit) ==
    /\ UNCHANGED <<ceVars, wsVars, appVars, lifeVars>>
    /\ now < MaxOps
    /\ now' = now + 1
    /\ returned' = [limit |-> limit, events |-> RecentEvents(recent_events, limit),
                    before |-> recent_events]
    /\ lastCall' = [op |-> "get_recent_events", id |-> "", status |-> "", pre |-> services]
    /\ UNCHANGED <<services, recent_events, active_incidents, snapshot, applied, manual>>

\* GET /api/metrics/recent?limit=...
GetRecentEvents == \E limit \in 0..MaxLimit : get_recent_events(limit)

NextState ==
    \/ UpdateFromEvent
    \/ SetServiceStatus
    \/ get_system_state
    \/ increment_incidents
    \/ decrement_incidents
    \/ GetRecentEvents

SpecState == InitState /\ [][NextState]_vars

SpecChaos == InitState /\ [][NextChaos]_vars

SpecSockets == InitState /\ [][NextSockets]_vars

\* the event loop lets time pass and runs every callback that is due
FairSpecChaos == SpecChaos /\ WF_vars(Tick) /\ WF_vars(FireTimer)

-----------------------------------------------------------------------------
(* The StateManager under a long feed: PrefillLen events arrive one after   *)
(* the other, each through update_from_event, and then any events, so that  *)
(* the history reaches and passes max_events                                *)

\* the i-th event of a feed of n, stamped before every later event
PrefillEvent(i, n) ==
    MakeEvent(InputIdSeq[(i % Len(InputIdSeq)) + 1],
              EventSampleSeq[((i \div 2) % Len(EventSampleSeq)) + 1],
              ProducerSkew - 1 - (n - i))

FeedEvent ==
    /\ Len(applied) < PrefillLen
    /\ UNCHANGED now
    /\ update_from_event(PrefillEvent(Len(applied) + 1, PrefillLen))

FedUpdateFromEvent ==
    /\ Len(applied) >= PrefillLen
    /\ UpdateFromEvent

NextHistory ==
    \/ FeedEvent
    \/ FedUpdateFromEvent

SpecHistory == InitState /\ [][NextHistory]_vars

-----------------------------------------------------------------------------
(* The handlers of backend/main.py: the websocket endpoint, one iteration   *)
(* of broadcast_state_loop, apply_remediation and datadog_webhook.  Each    *)
(* calls the StateManager, leaves its lock, and then calls the              *)
(* WebSocketManager.  A task inside `async with StateManager._lock' is      *)
(* shown as a state of its own (smLock), so that what a task holds when it  *)
(* reaches the WebSocketManager can be seen.                                *)

\* {**a, **b} of Python: the keys of both, b's value where both have the key
Merge(a, b) ==
    [k \in DOMAIN a \cup DOMAIN b |-> IF k \in DOMAIN b THEN b[k] ELSE a[k]]

\* broadcast_state_update, and the endpoint's first message: {"type": ..., **state}
StateUpdateMessage(state) == Merge([type |-> "state_update"], state)

\* broadcast_alert: {"type": ..., "timestamp": now, **alert}
AlertMessage(alert, t) == Merge([type |-> "alert", timestamp |-> t], alert)

\* broadcast_remediation_result: {"type": ..., **result}
RemediationMessage(result) == Merge([type |-> "remediation_result"], result)

\* datadog_webhook: the alert it broadcasts
AlertPayload(id) == [severity |-> "p2", service_id |-> id]

\* apply_remediation: the result it broadcasts
RemediationPayload(id) == [success |-> TRUE, service_id |-> id]

\* service ids named in requests: one of the registry, one outside it
RequestIds == {"ai-brain", "billing"}

SmReleased_Held(t) == t

\* leaving `async with StateManager._lock'
SmReleased(t) == NoTask

\* the client whose connection is followed from accept on; the others are
\* subscribers already
Endpoint == <<"client", 1>>

\* the event applied before the run starts: ai-brain is critical
PriorEvent == MakeEvent("ai-brain", EventSampleSeq[1], ProducerSkew)

InitApp ==
    /\ InitEngine
    /\ InitHandlers
    /\ services = ServicesAfterEvent(InitialServices, PriorEvent)
    /\ recent_events = PushEvent(<<>>, PriorEvent)
    /\ applied = <<PriorEvent>>
    /\ active_incidents = 0
    /\ snapshot = NoSnapshot
    /\ returned = NoReturn
    /\ now = 0
    /\ manual = {}
    /\ lastCall = NoCall
    /\ active_connections = [i \in 1..(MaxClients - 1) |-> <<"client", i + 1>>]
    /\ lockHolder = NoTask
    /\ lockWaiters = <<>>
    /\ pc = [t \in Tasks |-> IF t = Endpoint THEN "accepting"
                             ELSE IF t \in Clients THEN "serving"
                             ELSE IF t \in Broadcasters THEN "done" ELSE "idle"]
    /\ faulty = {}
    /\ inbox = [c \in Clients |->
                  IF c = Endpoint THEN <<>>
                  ELSE <<AckMessage(c),
                         StateUpdateMessage(SystemState(InitialServices, 0, 0))>>]
    /\ bcast = [b \in Broadcasters \cup Handlers |-> IdleBroadcast]

\* websocket_endpoint: connect has returned; state_manager.get_system_state()
EndpointSnapshot(c) ==
    /\ pc[c] = "connected"
    /\ smLock = NoTask
    /\ smLock' = c
    /\ pc' = [pc EXCEPT ![c] = "sm_snapshot"]
    /\ UNCHANGED <<smVars, ceVars, job, lifeVars>>
    /\ UNCHANGED <<active_connections, lockHolder, lockWaiters, faulty, inbox, bcast>>

\* websocket_endpoint: the snapshot is returned; send_personal(client_id, state_update)
EndpointState(c) ==
    /\ pc[c] = "sm_snapshot"
    /\ c \in Clients
    /\ smLock = c
    /\ smLock' = SmReleased(c)
    /\ LET snap == SystemState(services, active_incidents, now)
       IN  job' = [job EXCEPT ![c] = [NoJob EXCEPT !.kind = "endpoint", !.snapshots = 1,
                                        !.snapshot = snap,
                                        !.message = StateUpdateMessage(snap)]]
    /\ IF Acquires(lockHolder)
       THEN /\ IF Registered(active_connections, c)
               THEN /\ lockHolder' = c
                    /\ pc' = [pc EXCEPT ![c] = "state_send"]
               ELSE /\ pc' = [pc EXCEPT ![c] = "serving"]
                    /\ UNCHANGED lockHolder
            /\ UNCHANGED lockWaiters
       ELSE /\ lockWaiters' = Append(lockWaiters, c)
            /\ pc' = [pc EXCEPT ![c] = "wait_state"]
            /\ UNCHANGED lockHolder
    /\ UNCHANGED <<smVars, ceVars, lifeVars>>
    /\ UNCHANGED <<active_connections, faulty, inbox, bcast>>

\* send_personal(state_update): the lock is granted; send if still registered
EndpointStateGranted(c) ==
    /\ pc[c] = "wait_state"
    /\ lockHolder = c
    /\ IF Registered(active_connections, c)
       THEN /\ pc' = [pc EXCEPT ![c] = "state_send"]
            /\ UNCHANGED <<lockHolder, lockWaiters>>
       ELSE /\ pc' = [pc EXCEPT ![c] = "serving"]
            /\ lockHolder' = ReleasedHolder
            /\ lockWaiters' = ReleasedWaiters
    /\ UNCHANGED <<smVars, ceVars, appVars, lifeVars>>
    /\ UNCHANGED <<active_connections, faulty, inbox, bcast>>

\* send_personal(state_update): send_json returns or raises (logged); the
\* endpoint enters its receive loop
EndpointStateSent(c) ==
    /\ pc[c] = "state_send"
    /\ \E ok \in SendOutcomes(c) :
          /\ inbox' = IF ok THEN [inbox EXCEPT ![c] = Append(@, job[c].message)] ELSE inbox
          /\ faulty' = IF ok THEN faulty ELSE faulty \cup {c}
          /\ active_connections' = IF ok THEN active_connections
                                    ELSE PersonalFailure(active_connections, c)
    /\ pc' = [pc EXCEPT ![c] = "serving"]
    /\ lockHolder' = ReleasedHolder
    /\ lockWaiters' = ReleasedWaiters
    /\ UNCHANGED <<smVars, ceVars, appVars, lifeVars>>
    /\ UNCHANGED bcast

\* websocket_endpoint: receive_text or send_text raises; ws_manager.disconnect(client_id)
EndpointClosed(c) ==
    /\ pc[c] = "serving"
    /\ IF Acquires(lockHolder)
       THEN /\ active_connections' = Disconnected(active_connections, c)
            /\ pc' = [pc EXCEPT ![c] = "closed"]
            /\ UNCHANGED lockWaiters
       ELSE /\ lockWaiters' = Append(lockWaiters, c)
            /\ pc' = [pc EXCEPT ![c] = "wait_disconnect"]
            /\ UNCHANGED active_connections
    /\ UNCHANGED <<smVars, ceVars, appVars, lifeVars>>
    /\ UNCHANGED <<lockHolder, faulty, inbox, bcast>>

TickWorks_Always(n) == TRUE

\* broadcast_state_loop: if ws_manager.connection_count > 0
TickWorks(n) == n > 0

\* broadcast_state_loop, one iteration: nothing to do without connections,
\* else state_manager.get_system_state()
TickStart(h) ==
    /\ h[1] = "tick"
    /\ pc[h] = "idle"
    /\ LET n == Len(active_connections)
       IN  IF TickWorks(n)
           THEN /\ smLock = NoTask
                /\ smLock' = h
                /\ pc' = [pc EXCEPT ![h] = "sm_snapshot"]
                /\ job' = [job EXCEPT ![h] = [NoJob EXCEPT !.kind = "tick", !.count = n]]
           ELSE /\ pc' = [pc EXCEPT ![h] = "done"]
                /\ job' = [job EXCEPT ![h] = [NoJob EXCEPT !.kind = "tick"]]
                /\ UNCHANGED smLock
    /\ UNCHANGED <<smVars, ceVars, lifeVars>>
    /\ UNCHANGED <<active_connections, lockHolder, lockWaiters, faulty, inbox, bcast>>

\* broadcast_state_loop: the snapshot is returned; broadcast_state_update(state.model_dump())
TickSnapshot(h) ==
    /\ pc[h] = "sm_snapshot"
    /\ job[h].kind = "tick"
    /\ smLock = h
    /\ smLock' = SmReleased(h)
    /\ LET snap == SystemState(services, active_incidents, now)
       IN  job' = [job EXCEPT ![h].snapshots = @ + 1, ![h].snapshot = snap,
                              ![h].message = StateUpdateMessage(snap)]
    /\ broadcast(h)
    /\ UNCHANGED <<smVars, ceVars, lifeVars>>
    /\ UNCHANGED <<active_connections, faulty, inbox>>

\* a request arrives (POST /api/remediate, POST /api/datadog/webhook): the
\* handler calls state_manager.get_service_state(service_id)
RequestStart(h, kind, id) ==
    /\ h[1] = "request"
    /\ pc[h] = "idle"
    /\ smLock = NoTask
    /\ smLock' = h
    /\ pc' = [pc EXCEPT ![h] = "sm_get"]
    /\ job' = [job EXCEPT ![h] = [NoJob EXCEPT !.kind = kind, !.id = id,
                                                 !.served = job[h].served]]
    /\ UNCHANGED <<smVars, ceVars, lifeVars>>
    /\ UNCHANGED <<active_connections, lockHolder, lockWaiters, faulty, inbox, bcast>>

\* RemediationRequest.action: the members of RemediationAction
RemediationAction == {"reset_context", "scale_up", "failover", "rate_limit"}

\* POST /api/remediate with an action outside RemediationAction: the body
\* fails validation and apply_remediation is never entered
RemediateInvalid(h, id) ==
    /\ h[1] = "request"
    /\ pc[h] = "idle"
    /\ \E action \in {"reboot"} \ RemediationAction :
          job' = [job EXCEPT ![h] = [NoJob EXCEPT !.kind = "rejected", !.id = id]]
    /\ pc' = [pc EXCEPT ![h] = "done"]
    /\ UNCHANGED <<smVars, ceVars, smLock, lifeVars>>
    /\ UNCHANGED <<active_connections, lockHolder, lockWaiters, faulty, inbox, bcast>>

BetweenCalls_Suspends(h) == NoTask

\* apply_remediation from the return of get_service_state to the locked body
\* of set_service_status: only `previous_status = service.status' lies
\* between, and the acquire of the free StateManager lock does not suspend,
\* so the handler is still the running task
BetweenCalls(h) == h

\* apply_remediation: 404 for an unknown service, else previous_status =
\* service.status and set_service_status(id, HEALTHY)
RemediateGot(h) ==
    /\ pc[h] = "sm_get"
    /\ job[h].kind = "remediate"
    /\ smLock = h
    /\ IF job[h].id \in DOMAIN services
       THEN /\ pc' = [pc EXCEPT ![h] = "sm_set"]
            /\ smLock' = BetweenCalls(h)
            /\ job' = [job EXCEPT ![h].previous_status = services[job[h].id].status]
       ELSE /\ pc' = [pc EXCEPT ![h] = "done"]
            /\ smLock' = SmReleased(h)
            /\ UNCHANGED job
    /\ UNCHANGED <<smVars, ceVars, lifeVars>>
    /\ UNCHANGED <<active_connections, lockHolder, lockWaiters, faulty, inbox, bcast>>

\* apply_remediation: the status is set; broadcast_remediation_result(...)
RemediateSet(h) ==
    /\ pc[h] = "sm_set"
    /\ smLock = BetweenCalls(h)
    /\ smLock' = SmReleased(h)
    /\ services' = [services EXCEPT ![job[h].id] =
                        OverrideState(services[job[h].id], HEALTHY, now + 1)]
    /\ now' = now + 1
    /\ manual' = manual \cup {job[h].id}
    /\ lastCall' = [op |-> "set_service_status", id |-> job[h].id,
                    status |-> HEALTHY, pre |-> services]
    /\ job' = [job EXCEPT ![h].message = RemediationMessage(RemediationPayload(job[h].id))]
    /\ broadcast(h)
    /\ UNCHANGED <<recent_events, active_incidents, snapshot, returned, applied>>
    /\ UNCHANGED <<ceVars, lifeVars>>
    /\ UNCHANGED <<active_connections, faulty, inbox>>

\* datadog_webhook: the service state is returned; the Gemini analysis and the
\* voice alert are awaited outside both locks
WebhookGot(h) ==
    /\ pc[h] = "sm_get"
    /\ job[h].kind = "webhook"
    /\ smLock = h
    /\ smLock' = SmReleased(h)
    /\ pc' = [pc EXCEPT ![h] = "external"]
    /\ UNCHANGED <<smVars, ceVars, job, lifeVars>>
    /\ UNCHANGED <<active_connections, lockHolder, lockWaiters, faulty, inbox, bcast>>

\* datadog_webhook: state_manager.increment_incidents()
WebhookIncrement(h) ==
    /\ pc[h] = "external"
    /\ smLock = NoTask
    /\ smLock' = h
    /\ pc' = [pc EXCEPT ![h] = "sm_incr"]
    /\ UNCHANGED <<smVars, ceVars, job, lifeVars>>
    /\ UNCHANGED <<active_connections, lockHolder, lockWaiters, faulty, inbox, bcast>>

\* datadog_webhook: the count is incremented; broadcast_alert(...)
WebhookIncremented(h) ==
    /\ pc[h] = "sm_incr"
    /\ smLock = h
    /\ smLock' = SmReleased(h)
    /\ active_incidents' = Incremented(active_incidents)
    /\ lastCall' = [op |-> "increment_incidents", id |-> "", status |-> "", pre |-> services]
    /\ job' = [job EXCEPT ![h].message = AlertMessage(AlertPayload(job[h].id), now)]
    /\ broadcast(h)
    /\ UNCHANGED <<services, recent_events, snapshot, returned, now, applied, manual>>
    /\ UNCHANGED <<ceVars, lifeVars>>
    /\ UNCHANGED <<active_connections, faulty, inbox>>

NextApp ==
    \/ \E c \in Clients : ConnectRegister(c) /\ SocketsOnly
    \/ \E c \in Clients : ConnectRegistered(c) /\ SocketsOnly
    \/ \E c \in Clients : ConnectAckGranted(c) /\ SocketsOnly
    \/ \E c \in Clients : ConnectAckSent(c) /\ SocketsOnly
    \/ \E c \in Clients : EndpointSnapshot(c)
    \/ \E c \in Clients : EndpointState(c)
    \/ \E c \in Clients : EndpointStateGranted(c)
    \/ \E c \in Clients : EndpointStateSent(c)
    \/ \E c \in {Endpoint} : EndpointClosed(c)
    \/ \E c \in Clients : DisconnectGranted(c) /\ SocketsOnly
    \/ \E h \in Handlers : TickStart(h)
    \/ \E h \in Handlers : TickSnapshot(h)
    \/ \E h \in Handlers, id \in RequestIds : RequestStart(h, "remediate", id)
    \/ \E h \in Handlers, id \in RequestIds : RequestStart(h, "webhook", id)
    \/ \E h \in Handlers, id \in RequestIds : RemediateInvalid(h, id)
    \/ \E h \in Handlers : RemediateGot(h)
    \/ \E h \in Handlers : RemediateSet(h)
    \/ \E h \in Handlers : WebhookGot(h)
    \/ \E h \in Handlers : WebhookIncrement(h)
    \/ \E h \in Handlers : WebhookIncremented(h)
    \/ \E h \in Handlers : BroadcastGranted(h) /\ SocketsOnly
    \/ \E h \in Handlers : BroadcastSend(h) /\ SocketsOnly

SpecApp == InitApp /\ [][NextApp]_vars

-----------------------------------------------------------------------------
(* lifespan (backend/main.py): startup creates the background tasks, and     *)
(* shutdown cancels and awaits each of them.  A task is cancelled where it   *)
(* is suspended: the CancelledError is thrown at its await, and what happens *)
(* next is decided by the try/except around that await.                      *)

MaxReentries == 1

ExceptionCatches_All(exc) == TRUE

\* `except Exception': asyncio.CancelledError derives from BaseException
\* (models.py imports typing.Literal, so the interpreter is 3.8 or later)
ExceptionCatches(exc) == exc # "CancelledError"

\* the task has returned, or has ended with CancelledError
Terminal == {"finished", "cancelled"}

\* how many times the loops have gone round again, all tasks together
Reentries ==
    LET again(t) == IF iterations[t] > 0 THEN iterations[t] - 1 ELSE 0
    IN  again(TickTask) + again(KafkaTask) + again(SimulationTask)

\* where each loop starts an iteration
LoopTop(t) == IF t = TickTask THEN "idle"
              ELSE IF t = KafkaTask THEN "poll" ELSE "callback"

\* chaos_engine LATENCY_RANGES, ERROR_RATE_RANGES, TRAFFIC_VOLUME_RANGES: the
\* low end of each range
GeneratedSample(status) ==
    IF status = CRITICAL
    THEN [status |-> CRITICAL, latency_ms |-> 3000, error_rate |-> 1500, traffic_volume |-> 5]
    ELSE IF status = WARNING
    THEN [status |-> WARNING, latency_ms |-> 1000, error_rate |-> 500, traffic_volume |-> 30]
    ELSE [status |-> HEALTHY, latency_ms |-> 200, error_rate |-> 100, traffic_volume |-> 60]

\* generate_events: one event per service of SERVICES, in order, each with the
\* status assigned to its service (the random downgrade of a healthy event to
\* warning is not drawn) and stamped by the producer's clock
GeneratedEvents(t) ==
    [i \in 1..Len(ServiceOrder) |->
        MakeEvent(ServiceOrder[i], GeneratedSample(service_states[ServiceOrder[i]]), t)]

RECURSIVE ServicesAfterEvents(_, _)
\* update_from_event, once per event
ServicesAfterEvents(svcs, events) ==
    IF events = <<>> THEN svcs
    ELSE ServicesAfterEvents(ServicesAfterEvent(svcs, Head(events)), Tail(events))

RECURSIVE HistoryAfterEvents(_, _)
HistoryAfterEvents(history, events) ==
    IF events = <<>> THEN history
    ELSE HistoryAfterEvents(PushEvent(history, Head(events)), Tail(events))

InitLifespan ==
    /\ InitEngine
    /\ active_connections = <<>>
    /\ lockHolder = NoTask
    /\ lockWaiters = <<>>
    /\ pc = [t \in Tasks |-> IF t \in Clients THEN "accepting"
                             ELSE IF t \in BackgroundTasks THEN "absent"
                             ELSE IF t \in Broadcasters THEN "done" ELSE "idle"]
    /\ faulty = {}
    /\ inbox = [c \in Clients |-> <<>>]
    /\ bcast = [b \in Broadcasters \cup Handlers |-> IdleBroadcast]
    /\ smLock = NoTask
    /\ job = [t \in Handlers \cup Clients |-> NoJob]
    /\ \E s \in Settings : InitLife(s)
    /\ services = InitialServices
    /\ recent_events = <<>>
    /\ active_incidents = 0
    /\ snapshot = NoSnapshot
    /\ returned = NoReturn
    /\ now = 0
    /\ applied = <<>>
    /\ manual = {}
    /\ lastCall = NoCall

\* lifespan, up to the yield: create_task(broadcast_state_loop()), and
\* kafka_consumer.start(...) if kafka_consumer.enabled, else run_simulation_mode()
LifespanStartup ==
    /\ phase = "startup"
    /\ phase' = "serving"
    /\ LET source == IF kafka_consumer.enabled THEN KafkaTask ELSE SimulationTask
       IN  /\ background_tasks' = <<TickTask, source>>
           /\ pc' = [t \in Tasks |-> IF t \in {TickTask, source} THEN "created" ELSE pc[t]]
    /\ UNCHANGED <<smVars, ceVars, appVars>>
    /\ UNCHANGED <<active_connections, lockHolder, lockWaiters, faulty, inbox, bcast>>
    /\ UNCHANGED <<generated, running, polled, settings, kafka_consumer, awaited, cancelling, iterations, atCancel,
                   fed>>

\* broadcast_state_loop and ChaosEngine.run: the task runs for the first time
\* and enters its loop
LoopStarts(t) ==
    /\ t \in {TickTask, SimulationTask}
    /\ pc[t] = "created"
    /\ t \notin cancelling
    /\ pc' = [pc EXCEPT ![t] = LoopTop(t)]
    /\ iterations' = [iterations EXCEPT ![t] = @ + 1]
    /\ running' = (running \/ t = SimulationTask)
    /\ UNCHANGED <<smVars, ceVars, appVars>>
    /\ UNCHANGED <<active_connections, lockHolder, lockWaiters, faulty, inbox, bcast>>
    /\ UNCHANGED <<generated, polled, settings, kafka_consumer, background_tasks, phase, awaited, cancelling,
                   atCancel, fed>>

\* KafkaConsumer.start: return at once without a consumer, else subscribe and loop
KafkaStart ==
    /\ pc[KafkaTask] = "created"
    /\ KafkaTask \notin cancelling
    /\ IF ~kafka_consumer.enabled \/ ~kafka_consumer.consumer
       THEN /\ pc' = [pc EXCEPT ![KafkaTask] = "finished"]
            /\ UNCHANGED <<kafka_consumer, iterations>>
       ELSE /\ pc' = [pc EXCEPT ![KafkaTask] = "poll"]
            /\ kafka_consumer' = [kafka_consumer EXCEPT !.running = TRUE]
            /\ iterations' = [iterations EXCEPT ![KafkaTask] = @ + 1]
    /\ UNCHANGED <<smVars, ceVars, appVars>>
    /\ UNCHANGED <<active_connections, lockHolder, lockWaiters, faulty, inbox, bcast>>
    /\ UNCHANGED <<generated, running, polled, settings, background_tasks, phase, awaited, cancelling, atCancel,
                   fed>>

\* broadcast_state_loop: the body is over, await asyncio.sleep(2); or it raised
\* and the handler awaits asyncio.sleep(1)
LoopSleeps(t) ==
    /\ t = TickTask
    /\ pc[t] \in {"done", "raised"}
    /\ pc' = [pc EXCEPT ![t] = IF pc[t] = "done" THEN "sleep" ELSE "backoff"]
    /\ UNCHANGED <<smVars, ceVars, appVars, lifeVars>>
    /\ UNCHANGED <<active_connections, lockHolder, lockWaiters, faulty, inbox, bcast>>

\* a sleep returns and the loop starts its next iteration
LoopWakes(t) ==
    /\ t \in BackgroundTasks
    /\ pc[t] \in {"sleep", "backoff", "yield"}
    /\ t \notin cancelling
    /\ Reentries < MaxReentries
    /\ pc' = [pc EXCEPT ![t] = LoopTop(t)]
    /\ iterations' = [iterations EXCEPT ![t] = @ + 1]
    /\ UNCHANGED <<smVars, ceVars, appVars>>
    /\ UNCHANGED <<active_connections, lockHolder, lockWaiters, faulty, inbox, bcast>>
    /\ UNCHANGED <<generated, running, polled, settings, kafka_consumer, background_tasks, phase, awaited, cancelling,
                   atCancel, fed>>

\* ChaosEngine.run, one round: generate_events(), then await callback(event) for
\* each; event_callback hands the event to process_telemetry_event, which does
\* not wait (StateManager._lock is free).  Then await asyncio.sleep(interval)
SimulationCallback ==
    /\ pc[SimulationTask] = "callback"
    /\ SimulationTask \notin cancelling
    /\ LET events == GeneratedEvents(ProducerSkew + now)
           n      == Len(events)
       IN  /\ services' = ServicesAfterEvents(services, events)
           /\ recent_events' = HistoryAfterEvents(recent_events, events)
           /\ applied' = applied \o events
           /\ manual' = manual \ {events[i].service_id : i \in 1..n}
           /\ lastCall' = [op |-> "update_from_event", id |-> events[n].service_id,
                           status |-> events[n].status,
                           pre |-> ServicesAfterEvents(services, SubSeq(events, 1, n - 1))]
           /\ fed' = [fed EXCEPT ![SimulationTask] = @ + n]
    /\ pc' = [pc EXCEPT ![SimulationTask] = "sleep"]
    /\ UNCHANGED <<active_incidents, snapshot, returned, now>>
    /\ UNCHANGED <<ceVars, appVars>>
    /\ UNCHANGED <<active_connections, lockHolder, lockWaiters, faulty, inbox, bcast>>
    /\ UNCHANGED <<generated, running, polled, settings, kafka_consumer, background_tasks, phase, awaited, cancelling,
                   iterations, atCancel>>

\* ChaosEngine.run: the body raises; except Exception prints and awaits
\* asyncio.sleep(1)
SimulationRaises ==
    /\ pc[SimulationTask] = "callback"
    /\ SimulationTask \notin cancelling
    /\ pc' = [pc EXCEPT ![SimulationTask] = "backoff"]
    /\ UNCHANGED <<smVars, ceVars, appVars, lifeVars>>
    /\ UNCHANGED <<active_connections, lockHolder, lockWaiters, faulty, inbox, bcast>>

KafkaPolls == {"none", "error", "unparsable", "message"}

\* KafkaConsumer.start, one poll: no message (sleep 0.01), an error message
\* (continue), an unparsable one (logged, sleep 0), or an event for the callback
KafkaPoll ==
    /\ pc[KafkaTask] = "poll"
    /\ kafka_consumer.running
    /\ \E msg \in KafkaPolls :
          IF msg = "error"
          THEN /\ Reentries < MaxReentries
               /\ iterations' = [iterations EXCEPT ![KafkaTask] = @ + 1]
               /\ UNCHANGED pc
          ELSE /\ pc' = [pc EXCEPT ![KafkaTask] =
                            IF msg = "none" THEN "sleep"
                            ELSE IF msg = "unparsable" THEN "yield" ELSE "callback"]
               /\ UNCHANGED iterations
    /\ UNCHANGED <<smVars, ceVars, appVars>>
    /\ UNCHANGED <<active_connections, lockHolder, lockWaiters, faulty, inbox, bcast>>
    /\ UNCHANGED <<generated, running, polled, settings, kafka_consumer, background_tasks, phase, awaited, cancelling,
                   atCancel, fed>>

\* KafkaConsumer.start: await callback(event) returns, the event applied by
\* process_telemetry_event, or raises (logged); then await asyncio.sleep(0)
KafkaCallback ==
    /\ pc[KafkaTask] = "callback"
    /\ KafkaTask \notin cancelling
    /\ pc' = [pc EXCEPT ![KafkaTask] = "yield"]
    /\ \/ /\ UpdateServices(MakeEvent("ai-brain", EventSampleSeq[1], ProducerSkew + now))
          /\ fed' = [fed EXCEPT ![KafkaTask] = @ + 1]
          /\ UNCHANGED now
       \/ UNCHANGED <<smVars, fed>>
    /\ UNCHANGED <<ceVars, appVars>>
    /\ UNCHANGED <<active_connections, lockHolder, lockWaiters, faulty, inbox, bcast>>
    /\ UNCHANGED <<generated, running, polled, settings, kafka_consumer, background_tasks, phase, awaited, cancelling,
                   iterations, atCancel>>

\* the awaits at which a background task is suspended
Suspended == {"sleep", "backoff", "yield", "callback", "wait", "send"}

\* task.cancel(): nothing for a task that is over, else a CancelledError is
\* thrown into the task where it is suspended.  While lifespan runs, every
\* other task is at an await, or has not run yet.
CancelRequested(t) ==
    /\ pc[t] \in Terminal \cup Suspended \cup {"created"}
    /\ IF pc[t] \in Terminal
       THEN UNCHANGED <<cancelling, atCancel>>
       ELSE /\ cancelling' = cancelling \cup {t}
            /\ atCancel' = [atCancel EXCEPT ![t] = iterations[t]]

\* lifespan, after the yield: cancel the first background task and await it
LifespanShutdown ==
    /\ phase = "serving"
    /\ phase' = "shutdown"
    /\ awaited' = 1
    /\ CancelRequested(background_tasks[1])
    /\ UNCHANGED <<smVars, ceVars, wsVars, appVars>>
    /\ UNCHANGED <<generated, running, polled, settings, kafka_consumer, background_tasks, iterations, fed>>

\* lifespan: the awaited task is over (a CancelledError is passed over); cancel
\* and await the next, or after the last call kafka_consumer.stop()
LifespanAwaited ==
    /\ phase = "shutdown"
    /\ pc[background_tasks[awaited]] \in Terminal
    /\ IF awaited < Len(background_tasks)
       THEN /\ awaited' = awaited + 1
            /\ CancelRequested(background_tasks[awaited + 1])
            /\ UNCHANGED <<phase, kafka_consumer>>
       ELSE /\ phase' = "complete"
            /\ kafka_consumer' = [kafka_consumer EXCEPT !.running = FALSE]
            /\ UNCHANGED <<awaited, cancelling, atCancel>>
    /\ UNCHANGED <<smVars, ceVars, wsVars, appVars>>
    /\ UNCHANGED <<generated, running, polled, settings, background_tasks, iterations, fed>>

\* The CancelledError reaches a task that never ran, or one in a sleep or in
\* its callback.  broadcast_state_loop and ChaosEngine.run catch it in the try
\* and break; thrown in their except handler's sleep it ends the task.
\* KafkaConsumer.start has only `except Exception' around its awaits, and a
\* finally that calls stop().
TaskCancelled(t) ==
    /\ t \in cancelling
    /\ pc[t] \in {"created", "sleep", "backoff", "yield", "callback"}
    /\ cancelling' = cancelling \ {t}
    /\ IF pc[t] = "created"
       THEN /\ pc' = [pc EXCEPT ![t] = "cancelled"]
            /\ UNCHANGED kafka_consumer
       ELSE IF t = KafkaTask
       THEN IF pc[t] = "callback" /\ ExceptionCatches("CancelledError")
            THEN /\ pc' = [pc EXCEPT ![t] = "yield"]
                 /\ UNCHANGED kafka_consumer
            ELSE /\ pc' = [pc EXCEPT ![t] = IF ExceptionCatches("CancelledError")
                                             THEN "finished" ELSE "cancelled"]
                 /\ kafka_consumer' = [kafka_consumer EXCEPT !.running = FALSE]
       ELSE /\ pc' = [pc EXCEPT ![t] = IF pc[t] = "backoff" THEN "cancelled" ELSE "finished"]
            /\ UNCHANGED kafka_consumer
    /\ UNCHANGED <<smVars, ceVars, appVars>>
    /\ UNCHANGED <<active_connections, lockHolder, lockWaiters, faulty, inbox, bcast>>
    /\ UNCHANGED <<generated, running, polled, settings, background_tasks, phase, awaited, iterations, atCancel,
                   fed>>

\* broadcast_state_loop is cancelled while broadcast waits for the lock: it
\* leaves the queue (or passes the lock on, if it had just been handed it)
TickCancelledWaiting ==
    /\ TickTask \in cancelling
    /\ pc[TickTask] = "wait"
    /\ cancelling' = cancelling \ {TickTask}
    /\ pc' = [pc EXCEPT ![TickTask] = "finished"]
    /\ IF lockHolder = TickTask
       THEN /\ lockHolder' = ReleasedHolder
            /\ lockWaiters' = ReleasedWaiters
       ELSE /\ lockWaiters' = Without(lockWaiters, {TickTask})
            /\ UNCHANGED lockHolder
    /\ UNCHANGED <<smVars, ceVars, appVars>>
    /\ UNCHANGED <<active_connections, faulty, inbox, bcast>>
    /\ UNCHANGED <<generated, running, polled, settings, kafka_consumer, background_tasks, phase, awaited, iterations,
                   atCancel, fed>>

\* broadcast_state_loop is cancelled while broadcast awaits send_json: the
\* error passes broadcast's `except Exception', the lock is left
TickCancelledSending ==
    /\ TickTask \in cancelling
    /\ pc[TickTask] = "send"
    /\ cancelling' = cancelling \ {TickTask}
    /\ IF ExceptionCatches("CancelledError")
       THEN /\ BroadcastSend(TickTask)
            /\ active_connections[bcast[TickTask].idx] \in faulty'
       ELSE /\ pc' = [pc EXCEPT ![TickTask] = "finished"]
            /\ lockHolder' = ReleasedHolder
            /\ lockWaiters' = ReleasedWaiters
            /\ UNCHANGED <<active_connections, faulty, inbox, bcast>>
    /\ UNCHANGED <<smVars, ceVars, appVars>>
    /\ UNCHANGED <<generated, running, polled, settings, kafka_consumer, background_tasks, phase, awaited, iterations,
                   atCancel, fed>>

\* the server cancels an endpoint task during shutdown: the CancelledError
\* passes `except WebSocketDisconnect' and `except Exception', and
\* ws_manager.disconnect is not called
EndpointCancelled(c) ==
    /\ phase \in {"shutdown", "complete"}
    /\ pc[c] = "serving"
    /\ IF ExceptionCatches("CancelledError")
       THEN EndpointClosed(c)
       ELSE /\ pc' = [pc EXCEPT ![c] = "cancelled"]
            /\ UNCHANGED <<smVars, ceVars, appVars, lifeVars>>
            /\ UNCHANGED <<active_connections, lockHolder, lockWaiters, faulty, inbox, bcast>>

\* a step of a task that is not about to receive a CancelledError
Uncancelled(t) == t \notin cancelling

NextLifespan ==
    \/ LifespanStartup
    \/ \E t \in BackgroundTasks : LoopStarts(t)
    \/ KafkaStart
    \/ TickStart(TickTask)
    \/ TickSnapshot(TickTask)
    \/ Uncancelled(TickTask) /\ BroadcastGranted(TickTask) /\ SocketsOnly
    \/ Uncancelled(TickTask) /\ BroadcastSend(TickTask) /\ SocketsOnly
    \/ \E t \in BackgroundTasks : LoopSleeps(t)
    \/ \E t \in BackgroundTasks : LoopWakes(t)
    \/ SimulationCallback
    \/ SimulationRaises
    \/ KafkaPoll
    \/ KafkaCallback
    \/ \E c \in {Endpoint} : phase = "serving" /\ ConnectRegister(c) /\ SocketsOnly
    \/ \E c \in Clients : ConnectAckSent(c) /\ SocketsOnly
    \/ \E c \in Clients : EndpointSnapshot(c)
    \/ \E c \in Clients : EndpointState(c)
    \/ \E c \in Clients : EndpointStateGranted(c)
    \/ \E c \in Clients : EndpointStateSent(c)
    \/ \E c \in Clients : EndpointCancelled(c)
    \/ LifespanShutdown
    \/ LifespanAwaited
    \/ \E t \in BackgroundTasks : TaskCancelled(t)
    \/ TickCancelledWaiting
    \/ TickCancelledSending

SpecLifespan == InitLifespan /\ [][NextLifespan]_vars

\* the event loop throws a pending CancelledError into its task, resumes
\* lifespan when the task it awaits is over, and lets a running poll return
FairSpecLifespan ==
    /\ SpecLifespan
    /\ WF_vars(LifespanAwaited)
    /\ WF_vars(\E t \in BackgroundTasks : TaskCancelled(t))
    /\ WF_vars(TickCancelledWaiting)
    /\ WF_vars(TickCancelledSending)
    /\ WF_vars(KafkaPoll)

-----------------------------------------------------------------------------
(* Claims about the StateManager *)

\* index of the last event applied with service_id s, 0 when there is none
LastEventIndex(s) ==
    LET hits == {i \in 1..Len(applied) : applied[i].service_id = s}
    IN  IF hits = {} THEN 0 ELSE CHOOSE i \in hits : \A j \in hits : j <= i

\* C1: last-write-wins.  Every known service whose last write was not a
\* set_service_status carries the status, latency_ms, error_rate,
\* traffic_volume and timestamp of the last event applied with its id, and a
\* service that received no event still has its initial healthy baseline.
C1_LastWriteWins ==
    \A s \in ServiceIds \ manual :
        LET k == LastEventIndex(s)
            cur == services[s]
        IN  IF k = 0
            THEN /\ cur.status = HEALTHY
                 /\ cur.latency_ms = 500
                 /\ cur.error_rate = 200
                 /\ cur.traffic_volume = 75
                 /\ cur.last_updated = 0
            ELSE /\ cur.status = applied[k].status
                 /\ cur.latency_ms = applied[k].latency_ms
                 /\ cur.error_rate = applied[k].error_rate
                 /\ cur.traffic_volume = applied[k].traffic_volume
                 /\ cur.last_updated = applied[k].timestamp

\* two events for ai-brain with different statuses, one for payment between them
C1_Witness ==
    /\ Len(applied) = 3
    /\ applied[1].service_id = "ai-brain" /\ applied[1].status = CRITICAL
    /\ applied[2].service_id = "payment"
    /\ applied[3].service_id = "ai-brain" /\ applied[3].status = WARNING
    /\ services["ai-brain"].status = WARNING
    /\ services["ai-brain"].last_updated = applied[3].timestamp
    /\ manual = {}

\* the last n entries of a sequence
LastN(seq, n) == [i \in 1..n |-> seq[Len(seq) - n + i]]

Min(a, b) == IF a <= b THEN a ELSE b

\* C2: the bounded history is exactly the last min(n, 100) applied events in
\* arrival order; it never holds more than 100, and the 101st arrival evicts
\* the single oldest entry.
C2_BoundedHistory ==
    /\ Len(recent_events) <= 100
    /\ recent_events = LastN(applied, Min(Len(applied), 100))

\* the 101st event has arrived: the first one is gone, the second is now the oldest
C2_Witness ==
    /\ Len(applied) = 101
    /\ Len(recent_events) = 100
    /\ recent_events[1] = applied[2]
    /\ recent_events[1] # applied[1]

\* C3: a returned SystemState has system_integrity = 100 * healthy / total to one
\* decimal, counted over the services list the snapshot itself carries, and it
\* is within [0, 100].
C3_Integrity ==
    snapshot # NoSnapshot =>
        /\ Len(snapshot.services) = 5
        /\ snapshot.system_integrity * Len(snapshot.services)
             = 1000 * Cardinality({i \in 1..Len(snapshot.services) :
                                      snapshot.services[i].status = "healthy"})
        /\ snapshot.system_integrity >= 0
        /\ snapshot.system_integrity <= 1000

\* a snapshot taken with one service critical and one in warning: 60.0
C3_Witness ==
    /\ snapshot # NoSnapshot
    /\ snapshot.system_integrity = 600
    /\ \E i, j \in 1..5 : /\ snapshot.services[i].status = CRITICAL
                          /\ snapshot.services[j].status = WARNING

\* C4: for a known id, set_service_status(id, HEALTHY) leaves 500 / 0.02 / 75
\* whatever came before, set_service_status(id, WARNING or CRITICAL) leaves the
\* three metrics as they were; the status is the one given and the position is
\* unchanged in both cases, and no other service is touched.
C4_Override ==
    (lastCall.op = "set_service_status" /\ lastCall.id \in ServiceIds) =>
        LET pre == lastCall.pre[lastCall.id]
            cur == services[lastCall.id]
        IN  /\ cur.status = lastCall.status
            /\ cur.position = pre.position
            /\ cur.last_updated = now
            /\ lastCall.status = HEALTHY =>
                   /\ cur.latency_ms = 500
                   /\ cur.error_rate = 200
                   /\ cur.traffic_volume = 75
            /\ lastCall.status # HEALTHY =>
                   /\ cur.latency_ms = pre.latency_ms
                   /\ cur.error_rate = pre.error_rate
                   /\ cur.traffic_volume = pre.traffic_volume
            /\ \A s \in ServiceIds \ {lastCall.id} : services[s] = lastCall.pre[s]

\* a HEALTHY override of a service whose metrics were those of a critical event
C4_Witness ==
    /\ lastCall.op = "set_service_status"
    /\ lastCall.id = "ai-brain"
    /\ lastCall.status = HEALTHY
    /\ lastCall.pre["ai-brain"].latency_ms = 10000
    /\ services["ai-brain"].latency_ms = 500

-----------------------------------------------------------------------------
(* Claims about the ChaosEngine *)

\* C7: after set_mode('cascading_failure') and no further set_mode call:
\* at once ai-brain is critical and payment warning; 2 time-units later (the
\* callbacks due then having run) payment is critical and auth warning; from 4
\* time-units on ai-brain, payment and auth are critical, database is warning
\* and gateway is healthy.
C7_CascadeSchedule ==
    mode = "cascading_failure" =>
        /\ (lastStep.op = "set_mode" /\ lastStep.arg = "cascading_failure") =>
               /\ service_states["ai-brain"] = CRITICAL
               /\ service_states["payment"] = WARNING
        /\ (since = 2 /\ NoneDue) =>
               /\ service_states["payment"] = CRITICAL
               /\ service_states["auth"] = WARNING
        /\ (since >= 4 /\ NoneDue) =>
               /\ service_states["ai-brain"] = CRITICAL
               /\ service_states["payment"] = CRITICAL
               /\ service_states["auth"] = CRITICAL
               /\ service_states["database"] = WARNING
               /\ service_states["gateway"] = HEALTHY

\* The part of C7 that holds whatever ran before: the outcome from 4 time-units on.
CascadeOutcome ==
    (mode = "cascading_failure" /\ since >= 4 /\ NoneDue) =>
        service_states = [s \in ServiceIds |->
                            CASE s \in {"ai-brain", "payment", "auth"} -> CRITICAL
                              [] s = "database" -> WARNING
                              [] OTHER -> HEALTHY]

\* C8: an escalation scheduled under cascading_failure, once the mode has been
\* switched away before it fires, never changes service_states, whatever
\* set_mode calls follow.
C8_NoStaleEscalation ==
    (lastStep.op \in CascadeCallbacks /\ lastStep.stale) =>
        service_states = lastStep.pre

\* C9 (entry): set_mode('recovery') turns every critical status into warning and
\* leaves the others as they were.
C9_Entry ==
    (lastStep.op = "set_mode" /\ lastStep.arg = "recovery") =>
        /\ mode = "recovery"
        /\ \A s \in ServiceIds :
              service_states[s] = IF lastStep.pre[s] = "critical" THEN "warning"
                                  ELSE lastStep.pre[s]

\* C9 (completion): a _complete_recovery that fires while the mode is still
\* recovery makes every service healthy and the mode steady_state.
C9_Complete ==
    (lastStep.op = "_complete_recovery" /\ lastStep.premode = "recovery") =>
        /\ mode = "steady_state"
        /\ \A s \in ServiceIds : service_states[s] = "healthy"

\* C9: set_mode('recovery') demotes exactly the critical services to warning; a
\* recovery timer that finds the mode still recovery makes all healthy and the
\* mode steady_state; and a recovery that no set_mode call takes to another
\* failure mode reaches steady_state with every service healthy.
C9_Recovery ==
    /\ [](C9_Entry /\ C9_Complete)
    /\ (mode = "recovery") ~>
          \/ mode = "steady_state" /\ \A s \in ServiceIds : service_states[s] = "healthy"
          \/ mode \in {"latency_spike", "cascading_failure"}

\* the recovery timer fired in recovery mode, after a cascade had made payment critical
C9_Witness ==
    /\ lastStep.op = "_complete_recovery"
    /\ lastStep.premode = "recovery"
    /\ lastStep.pre["ai-brain"] = WARNING
    /\ lastStep.pre["payment"] = WARNING
    /\ lastStep.pre["auth"] = WARNING
    /\ mode = "steady_state"

\* C10: whenever the mode is steady_state every assigned status is healthy: a
\* set_mode('steady_state') makes them so, and no timer firing afterwards
\* changes one while the mode stays steady_state.
C10_SteadyAllHealthy ==
    mode = "steady_state" => \A s \in ServiceIds : service_states[s] = "healthy"

\* an escalation left over from a cascade fires after the switch to steady_state
C10_Witness ==
    /\ mode = "steady_state"
    /\ lastStep.op = "_escalate_cascade"
    /\ lastStep.premode = "steady_state"
    /\ lastStep.stale

-----------------------------------------------------------------------------
(* Claims about the WebSocketManager *)

\* the clients of a finished broadcast whose send_json raised
FailedIn(b) == SeqToSet(bcast[b].entry) \ bcast[b].delivered

\* C5: a broadcast never raises.  When it returns, every subscriber registered
\* when it entered the lock either got the message or had a failing send, the
\* failing ones are gone from active_connections and all others are still
\* there, in order; with exactly one failing among N there were N-1
\* deliveries.  With no subscriber nothing is sent and nothing changes.
C5_BroadcastIsolation ==
    \A b \in Broadcasters :
        /\ pc[b] # "raised"
        /\ pc[b] = "done" =>
              /\ bcast[b].delivered \subseteq SeqToSet(bcast[b].entry)
              /\ FailedIn(b) = SeqToSet(bcast[b].disconnected)
              /\ FailedIn(b) \subseteq faulty
              /\ bcast[b].after = Without(bcast[b].entry, FailedIn(b))
              /\ \A c \in bcast[b].delivered :
                    \E i \in 1..Len(inbox[c]) : inbox[c][i] = BroadcastMessage(b)
              /\ Cardinality(FailedIn(b)) = 1 =>
                    Cardinality(bcast[b].delivered) = Len(bcast[b].entry) - 1
              /\ bcast[b].entry = <<>> =>
                    /\ bcast[b].after = <<>>
                    /\ \A c \in Clients :
                          \A i \in 1..Len(inbox[c]) : inbox[c][i] # BroadcastMessage(b)

\* a broadcast to two subscribers, the first of them failing: one delivery, one pruned
C5_Witness ==
    \E b \in Broadcasters :
        /\ pc[b] = "done"
        /\ Len(bcast[b].entry) = 2
        /\ FailedIn(b) = {bcast[b].entry[1]}
        /\ bcast[b].delivered = {bcast[b].entry[2]}
        /\ bcast[b].after = <<bcast[b].entry[2]>>

\* C6: the first message a subscriber receives is its connection_ack: no
\* broadcast message reaches it before, whatever the interleaving of connect
\* with concurrent broadcasts.
C6_AckFirst ==
    \A c \in Clients :
        inbox[c] # <<>> => inbox[c][1].type = "connection_ack"

\* C12: no task is suspended in send_json while it holds WebSocketManager._lock,
\* so that connect, disconnect and other broadcasts never wait behind a send.
C12_NoSendUnderLock ==
    \A t \in Tasks : pc[t] \in {"ack_send", "send"} => lockHolder # t

\* a send to c has raised and the operation that made it has returned
DeliveryFailed(c) == c \in faulty /\ lockHolder = NoTask

\* C14: a subscriber to which a delivery failed, in broadcast or in
\* send_personal, is no longer in active_connections once the operation is over.
C14_FailureRemoves ==
    \A c \in Clients : DeliveryFailed(c) => c \notin SeqToSet(active_connections)

\* C15: send_personal returns normally when the send fails and when the id is
\* not registered; it removes no other subscriber and sends nothing to any
\* other subscriber.
C15_PersonalBestEffort ==
    [][\A c \in Clients :
          (pc[c] \in {"ack_send", "wait_ack"} /\ lockHolder = c /\ pc'[c] # pc[c]) =>
              /\ pc'[c] \in {"ack_send", "connected"}
              /\ \A d \in Clients \ {c} :
                    /\ inbox'[d] = inbox[d]
                    /\ d \in SeqToSet(active_connections) =>
                          d \in SeqToSet(active_connections')]_vars

\* the connection_ack of one client failed, or found it pruned, while another
\* client was registered, and that one still is
C15_Witness ==
    \E c \in Clients, d \in Clients :
        /\ c # d
        /\ pc[c] = "connected"
        /\ inbox[c] = <<>>
        /\ c \in faulty
        /\ c \in SeqToSet(active_connections)
        /\ d \in SeqToSet(active_connections)
        /\ lockHolder = NoTask

-----------------------------------------------------------------------------
(* Claims about the StateManager's reads *)

\* C20: get_recent_events(limit), limit >= 0, returns at most limit entries:
\* the last min(limit, len(history)) events, most recent last; the history is
\* as it was before the call.
C20_RecentEvents ==
    lastCall.op = "get_recent_events" =>
        /\ Len(returned.events) <= returned.limit
        /\ returned.events =
              LastN(returned.before, Min(returned.limit, Len(returned.before)))
        /\ recent_events = returned.before

\* The part of C20 that holds: every limit >= 1
RecentEventsPositiveLimit ==
    (lastCall.op = "get_recent_events" /\ returned.limit >= 1) =>
        /\ returned.events =
              LastN(returned.before, Min(returned.limit, Len(returned.before)))
        /\ recent_events = returned.before

-----------------------------------------------------------------------------
(* Claims about the handlers of backend/main.py *)

\* C13: no task is inside StateManager._lock and WebSocketManager._lock at the
\* same time: none holds both, and none waits for the second while it holds
\* the first, so the two locks cannot deadlock.
C13_NeverBothLocks ==
    \A t \in Tasks :
        /\ smLock = t =>
               /\ lockHolder # t
               /\ t \notin SeqToSet(lockWaiters)
               /\ pc[t] \in {"sm_snapshot", "sm_get", "sm_set", "sm_incr"}
        /\ (lockHolder = t \/ t \in SeqToSet(lockWaiters)) =>
               pc[t] \notin {"connected", "idle", "external"}

\* a handler is inside the StateManager's lock while another task holds the
\* WebSocketManager's
C13_Witness ==
    \E h \in Handlers :
        /\ smLock = h
        /\ lockHolder \in Tasks \ {h}

\* C16: every message delivered by a broadcast (state_update, alert,
\* remediation_result) carries a timestamp field.
C16_BroadcastsStamped ==
    \A c \in Clients : \A i \in 1..Len(inbox[c]) :
        inbox[c][i].type \in {"state_update", "alert", "remediation_result"}
            => "timestamp" \in DOMAIN inbox[c][i]

\* the stamping that broadcast_alert does and broadcast_state_update inherits
\* from the snapshot: alerts and state updates are stamped
StampedKindsCarryTimestamp ==
    \A c \in Clients : \A i \in 1..Len(inbox[c]) :
        inbox[c][i].type \in {"state_update", "alert"}
            => "timestamp" \in DOMAIN inbox[c][i]

\* C17: a broadcast tick that finds at least one subscriber takes exactly one
\* snapshot and every subscriber it delivers to receives the same state_update
\* message built from that snapshot, each subscriber registered when the
\* broadcast starts being either delivered to or dropped for a failed send;
\* a tick that finds no subscriber takes no snapshot and sends nothing.
C17_TickOneSnapshot ==
    LET h == TickTask
    IN  /\ job[h].snapshots <= 1
        /\ (job[h].kind = "tick" /\ job[h].count = 0) =>
               /\ pc[h] = "done"
               /\ job[h].snapshots = 0
               /\ job[h].message = NoMessage
               /\ bcast[h] = IdleBroadcast
        /\ (job[h].count > 0 /\ pc[h] \in {"wait", "send", "done", "raised"}) =>
               /\ job[h].snapshots = 1
               /\ job[h].message = StateUpdateMessage(job[h].snapshot)
               /\ job[h].message.type = "state_update"
        /\ \A c \in bcast[h].delivered :
               \E i \in 1..Len(inbox[c]) : inbox[c][i] = job[h].message
        /\ (job[h].count > 0 /\ pc[h] \in {"done", "raised"}) =>
               /\ pc[h] = "done"
               /\ bcast[h].delivered \cup SeqToSet(bcast[h].disconnected)
                      = SeqToSet(bcast[h].entry)

\* a finished tick after the critical ai-brain event: every subscriber, the
\* new one included, has received the update with system_integrity 80.0
C17_Witness ==
    LET h == TickTask
    IN  /\ pc[h] = "done"
        /\ job[h].count > 0
        /\ bcast[h].delivered = Clients
        /\ job[h].message.system_integrity = 800
        /\ \A c \in Clients :
               \E i \in 1..Len(inbox[c]) :
                   /\ inbox[c][i] = job[h].message
                   /\ inbox[c][i].system_integrity = 800

\* a tick that found no subscriber and finished
TickSkipped ==
    /\ pc[TickTask] = "done"
    /\ job[TickTask].kind = "tick"
    /\ job[TickTask].count = 0

-----------------------------------------------------------------------------
(* Claims about lifespan and the background tasks *)

\* the source's task is inside its loop
Feeding(t) == pc[t] \in {"poll", "callback", "sleep", "yield", "backoff"}

\* startup is over and every task it created has run
Started ==
    /\ phase = "serving"
    /\ \A t \in SeqToSet(background_tasks) : pc[t] # "created"

\* C11: after startup exactly one of the two ingestion sources feeds
\* process_telemetry_event, and the simulation is the one that runs whenever
\* the Kafka consumer is not consuming.
C11_ExactlyOneSource ==
    Started =>
        /\ Feeding(KafkaTask) # Feeding(SimulationTask)
        /\ ~Feeding(KafkaTask) => Feeding(SimulationTask)

\* the two sources are never both feeding
NeverBothSources == ~(Feeding(KafkaTask) /\ Feeding(SimulationTask))

\* C18: after lifespan's shutdown is complete no subscriber is registered.
C18_ShutdownEmptiesSubscribers ==
    phase = "complete" => active_connections = <<>>

\* C19: a background task cancelled where it is suspended starts no further
\* loop iteration and ends, and lifespan's shutdown, once begun, completes.
C19_CancelledLoopsStop ==
    /\ [](\A t \in BackgroundTasks : atCancel[t] >= 0 => iterations[t] = atCancel[t])
    /\ [](phase = "complete" =>
            /\ cancelling = {}
            /\ \A t \in SeqToSet(background_tasks) : pc[t] \in Terminal)
    /\ (phase = "shutdown" ~> phase = "complete")

\* shutdown is complete after both the broadcast loop and the consuming Kafka
\* loop were cancelled inside their loops
C19_Witness ==
    /\ phase = "complete"
    /\ atCancel[TickTask] >= 1
    /\ atCancel[KafkaTask] >= 1
    /\ pc[TickTask] \in Terminal
    /\ pc[KafkaTask] = "cancelled"

-----------------------------------------------------------------------------
(* Claims about unknown ids, the incident counter and the registry *)

\* C21: a call naming an id outside the registry never adds or alters a
\* ServiceState.  update_from_event with such an id leaves services unchanged
\* and still appends the event to recent_events; set_service_status with such
\* an id changes neither services nor recent_events nor active_incidents.
C21_UnknownIdIsNoOp ==
    [][(now' = now + 1 /\ lastCall'.id \notin DOMAIN services)
        => /\ lastCall'.op = "update_from_event"
                => /\ services' = services
                   /\ Len(applied') = Len(applied) + 1
                   /\ applied'[Len(applied')].service_id = lastCall'.id
                   /\ recent_events' =
                         IF Len(recent_events) < max_events
                         THEN Append(recent_events, applied'[Len(applied')])
                         ELSE Append(Tail(recent_events), applied'[Len(applied')])
                   /\ active_incidents' = active_incidents
           /\ lastCall'.op = "set_service_status"
                => UNCHANGED <<services, recent_events, active_incidents>>]_vars

\* an event for "billing" sits in the history, then "billing" was overridden,
\* and the registry is still the initial one
C21_Witness ==
    /\ Len(recent_events) = 1
    /\ recent_events[1].service_id = "billing"
    /\ lastCall.op = "set_service_status"
    /\ lastCall.id = "billing"
    /\ lastCall.status = CRITICAL
    /\ services = InitialServices
    /\ active_incidents = 0

\* C22: active_incidents is never negative.  decrement_incidents on a zero
\* counter leaves it at zero and otherwise lowers it by exactly one;
\* increment_incidents raises it by exactly one.
C22_IncidentCounter ==
    /\ [](active_incidents \in Nat)
    /\ [][now' = now + 1
          => /\ lastCall'.op = "decrement_incidents"
                  => active_incidents' = IF active_incidents = 0 THEN 0
                                         ELSE active_incidents - 1
             /\ lastCall'.op = "increment_incidents"
                  => active_incidents' = active_incidents + 1]_vars

\* the first call of the run was a decrement, on the zero counter
C22_Witness ==
    /\ now = 1
    /\ lastCall.op = "decrement_incidents"
    /\ active_incidents = 0

\* C23: the key set of services is exactly the fixed registry, the
\* ServiceState stored under a key carries that key as its service_id, and
\* every position is the one the registry gave the service at construction.
C23_RegistryFixed ==
    /\ DOMAIN services = DOMAIN SERVICE_POSITIONS
    /\ \A s \in DOMAIN services :
          /\ services[s].service_id = s
          /\ services[s].position = SERVICE_POSITIONS[s]
          /\ services[s].position = InitialServices[s].position

\* ai-brain was replaced by an event, payment was overridden, and an event
\* for an id outside the registry arrived
C23_Witness ==
    /\ Len(applied) = 2
    /\ \E i, k \in 1..2 :
          /\ applied[i].service_id = "billing"
          /\ applied[k].service_id = "ai-brain"
    /\ services["ai-brain"].last_updated > 0
    /\ manual = {"payment"}
    /\ services["payment"].status = CRITICAL

-----------------------------------------------------------------------------
(* Claims about disconnect *)

\* disconnect(c) runs its locked section in this step
DisconnectRuns(c) ==
    /\ \/ pc[c] = "connected" /\ lockHolder = NoTask
       \/ pc[c] = "wait_disconnect" /\ lockHolder = c
    /\ pc'[c] # pc[c]

\* C24: disconnect is idempotent.  Called for an id that is not registered it
\* leaves the subscriber set unchanged and returns without raising; after it
\* has run, the id is not registered, the other subscribers are as before,
\* and running it again would change nothing.
C24_DisconnectIdempotent ==
    [][\A c \in Clients :
          DisconnectRuns(c)
          => /\ pc'[c] = "closed"
             /\ c \notin SeqToSet(active_connections)
                   => active_connections' = active_connections
             /\ c \notin SeqToSet(active_connections')
             /\ \A d \in Clients \ {c} :
                   d \in SeqToSet(active_connections')
                      <=> d \in SeqToSet(active_connections)
             /\ Disconnected(active_connections', c) = active_connections']_vars

\* a broadcast pruned client 1 while client 2 stayed registered, and the
\* endpoint of client 1 then called disconnect for the id that was gone
C24_Witness ==
    /\ pc[<<"client", 1>>] = "closed"
    /\ active_connections = << <<"client", 2>> >>
    /\ \E b \in Broadcasters :
          /\ pc[b] = "done"
          /\ <<"client", 1>> \in SeqToSet(bcast[b].disconnected)
          /\ <<"client", 2>> \in bcast[b].delivered

-----------------------------------------------------------------------------
(* POST /api/chaos/mode/{mode} beside the built-in simulation.  The engine  *)
(* of run_simulation_mode is a local of that coroutine; the handler works   *)
(* on state_manager.  Neither awaits anything but the uncontended           *)
(* StateManager lock, so each is one step.                                  *)

\* set_chaos_mode: valid_modes of the handler
chaos_valid_modes == {"steady_state", "latency_spike", "cascading_failure", "recovery"}

\* set_chaos_mode: the set_service_status calls made for a mode, in order
ModeOverrides(m) ==
    CASE m = "steady_state" -> [i \in 1..Len(ServiceOrder) |-> <<ServiceOrder[i], HEALTHY>>]
      [] m = "latency_spike" -> << <<"ai-brain", CRITICAL>> >>
      [] m = "cascading_failure" ->
            << <<"ai-brain", CRITICAL>>, <<"payment", WARNING>>, <<"auth", WARNING>> >>
      [] m = "recovery" -> [i \in 1..Len(ServiceOrder) |-> <<ServiceOrder[i], HEALTHY>>]
      [] OTHER -> <<>>

RECURSIVE ServicesAfterOverrides(_, _, _)
\* set_service_status, once per call of the handler
ServicesAfterOverrides(svcs, overrides, t) ==
    IF overrides = <<>> THEN svcs
    ELSE ServicesAfterOverrides(
             ServicesAfterOverride(svcs, Head(overrides)[1], Head(overrides)[2], t),
             Tail(overrides), t)

\* POST /api/chaos/mode/{mode}: 400 for a mode outside valid_modes, else the
\* overrides of the mode on state_manager
set_chaos_mode(m) ==
    /\ now < MaxOps
    /\ now' = now + 1
    /\ lastCall' = [op |-> "set_chaos_mode", id |-> m, status |-> "", pre |-> services]
    /\ IF m \notin chaos_valid_modes
       THEN UNCHANGED <<services, manual>>
       ELSE /\ services' = ServicesAfterOverrides(services, ModeOverrides(m), now + 1)
            /\ manual' = manual \cup {ModeOverrides(m)[i][1] : i \in 1..Len(ModeOverrides(m))}
    /\ UNCHANGED <<recent_events, active_incidents, snapshot, returned, applied>>
    /\ UNCHANGED <<ceVars, wsVars, appVars, lifeVars>>

SetChaosMode == \E m \in ModeInputs : set_chaos_mode(m)

\* run_simulation_mode: one iteration of engine.run, generate_events and the
\* callback for each event (process_telemetry_event -> update_from_event)
SimulationRound ==
    /\ now < MaxOps
    /\ now' = now + 1
    /\ LET events == GeneratedEvents(ProducerSkew + now)
           n      == Len(events)
       IN  /\ services' = ServicesAfterEvents(services, events)
           /\ recent_events' = HistoryAfterEvents(recent_events, events)
           /\ applied' = applied \o events
           /\ manual' = manual \ {events[i].service_id : i \in 1..n}
           /\ lastCall' = [op |-> "update_from_event", id |-> events[n].service_id,
                           status |-> events[n].status,
                           pre |-> ServicesAfterEvents(services, SubSeq(events, 1, n - 1))]
    /\ UNCHANGED <<active_incidents, snapshot, returned>>
    /\ UNCHANGED <<ceVars, wsVars, appVars, lifeVars>>

NextControl ==
    \/ SetChaosMode
    \/ SimulationRound

SpecControl == InitState /\ [][NextControl]_vars

\* C25: a request naming a valid mode switches the mode of the running
\* simulation engine, so that the events it emits afterwards follow that
\* mode; a request naming an invalid mode changes neither the engine nor the
\* aggregator.
C25_ModeRequestSwitchesEngine ==
    [][(now' = now + 1 /\ lastCall'.op = "set_chaos_mode")
        => IF lastCall'.id \in chaos_valid_modes
           THEN mode' = lastCall'.id
           ELSE UNCHANGED <<mode, service_states, services, recent_events,
                            active_incidents>>]_vars

\* the part of C25 the handler keeps: an invalid mode changes nothing
InvalidModeChangesNothing ==
    [][(now' = now + 1 /\ lastCall'.op = "set_chaos_mode"
        /\ lastCall'.id \notin chaos_valid_modes)
        => UNCHANGED <<mode, service_states, services, recent_events,
                       active_incidents>>]_vars

-----------------------------------------------------------------------------
(* KafkaConsumer.start: from the polled message to update_from_event *)

\* TelemetryEvent: latency_ms le=10000, error_rate le=1.0 (in 1/10000),
\* traffic_volume le=100
LatencyMax == 10000
ErrorRateMax == 10000
TrafficMax == 100

Validates_ExclusiveUpper(value) ==
    /\ value.complete
    /\ value.status \in ServiceStatus
    /\ value.latency_ms >= 0 /\ value.latency_ms < LatencyMax
    /\ value.error_rate >= 0 /\ value.error_rate < ErrorRateMax
    /\ value.traffic_volume >= 0 /\ value.traffic_volume < TrafficMax

\* TelemetryEvent(**value) returns: every required field is there with its
\* type, status is a member of ServiceStatus, ge <= field <= le
Validates(value) ==
    /\ value.complete
    /\ value.status \in ServiceStatus
    /\ value.latency_ms >= 0 /\ value.latency_ms <= LatencyMax
    /\ value.error_rate >= 0 /\ value.error_rate <= ErrorRateMax
    /\ value.traffic_volume >= 0 /\ value.traffic_volume <= TrafficMax

\* a decoded record of the feed: complete says that every required key of
\* TelemetryEvent is present
FeedBase ==
    [complete |-> TRUE, service_id |-> "ai-brain", status |-> CRITICAL,
     latency_ms |-> 3000, error_rate |-> 1500, traffic_volume |-> 5]

\* the records a run polls: the base record with one field at, or one step
\* outside, a bound of TelemetryEvent; a status outside the enum; a record
\* with a required key missing; a record for an id outside the registry
FeedValues ==
    {FeedBase, [FeedBase EXCEPT !.complete = FALSE],
     [FeedBase EXCEPT !.service_id = "billing"]}
    \cup {[FeedBase EXCEPT !.status = s] : s \in {HEALTHY, WARNING, "degraded"}}
    \cup {[FeedBase EXCEPT !.latency_ms = n] : n \in {-1, 0, LatencyMax, LatencyMax + 1}}
    \cup {[FeedBase EXCEPT !.error_rate = n] : n \in {-1, 0, ErrorRateMax, ErrorRateMax + 1}}
    \cup {[FeedBase EXCEPT !.traffic_volume = n] : n \in {-1, 0, TrafficMax, TrafficMax + 1}}

\* msg.value(): bytes json.loads rejects, or the JSON of a record
FeedMessages ==
    {[type |-> "garbage"]} \cup {[type |-> "json", value |-> v] : v \in FeedValues}

\* the TelemetryEvent built from a record that validates
RecordEvent(value, timestamp) ==
    [timestamp      |-> timestamp,
     service_id     |-> value.service_id,
     status         |-> value.status,
     latency_ms     |-> value.latency_ms,
     error_rate     |-> value.error_rate,
     traffic_volume |-> value.traffic_volume]

\* Kafka configured and the Consumer built
KafkaSettings == [servers |-> TRUE, sasl |-> TRUE, ctor |-> TRUE]

\* the consumer task has been created and has not run yet
InitConsumer ==
    /\ InitEngine
    /\ active_connections = <<>>
    /\ lockHolder = NoTask
    /\ lockWaiters = <<>>
    /\ pc = [t \in Tasks |-> IF t = KafkaTask THEN "created" ELSE "absent"]
    /\ faulty = {}
    /\ inbox = [c \in Clients |-> <<>>]
    /\ bcast = [b \in Broadcasters \cup Handlers |-> IdleBroadcast]
    /\ smLock = NoTask
    /\ job = [t \in Handlers \cup Clients |-> NoJob]
    /\ InitLife(KafkaSettings)
    /\ services = InitialServices
    /\ recent_events = <<>>
    /\ active_incidents = 0
    /\ snapshot = NoSnapshot
    /\ returned = NoReturn
    /\ now = 0
    /\ applied = <<>>
    /\ manual = {}
    /\ lastCall = NoCall

\* one iteration of the while loop on a polled message: json.loads,
\* TelemetryEvent(**value), await callback(event), with JSONDecodeError and any
\* other Exception logged; then await asyncio.sleep(0)
ConsumeRecord(msg) ==
    /\ pc[KafkaTask] = "poll"
    /\ kafka_consumer.running
    /\ now < MaxOps
    /\ now' = now + 1
    /\ polled' = msg
    /\ iterations' = [iterations EXCEPT ![KafkaTask] = @ + 1]
    /\ IF msg.type = "json" /\ Validates(msg.value)
       THEN /\ UpdateServices(RecordEvent(msg.value, ProducerSkew + now))
            /\ fed' = [fed EXCEPT ![KafkaTask] = @ + 1]
       ELSE UNCHANGED <<services, recent_events, active_incidents, snapshot, returned,
                        applied, manual, lastCall, fed>>
    /\ UNCHANGED <<ceVars, wsVars, appVars>>
    /\ UNCHANGED <<generated, running, settings, kafka_consumer, background_tasks, phase, awaited,
                   cancelling, atCancel>>

\* KafkaConsumer.stop, called at shutdown: the while loop ends at its next test
ConsumerStop ==
    /\ pc[KafkaTask] = "poll"
    /\ kafka_consumer.running
    /\ kafka_consumer' = [kafka_consumer EXCEPT !.running = FALSE]
    /\ pc' = [pc EXCEPT ![KafkaTask] = "finished"]
    /\ UNCHANGED <<smVars, ceVars, appVars>>
    /\ UNCHANGED <<active_connections, lockHolder, lockWaiters, faulty, inbox, bcast>>
    /\ UNCHANGED <<generated, running, polled, settings, background_tasks, phase, awaited, cancelling, iterations,
                   atCancel, fed>>

NextConsumer ==
    \/ KafkaStart
    \/ \E msg \in FeedMessages : ConsumeRecord(msg)
    \/ ConsumerStop

SpecConsumer == InitConsumer /\ [][NextConsumer]_vars

\* C26: a polled record reaches update_from_event if and only if it is a
\* TelemetryEvent whose status is in the enum and whose latency_ms, error_rate
\* and traffic_volume lie within 0..10000, 0..1 and 0..100, bounds included,
\* and then the values arrive unchanged; any other record is dropped with the
\* aggregator state as it was; either way the consumer is still running and
\* polls again.
C26_FeedValidation ==
    [][now' = now + 1
        => LET msg == polled'
               reached == Len(applied') = Len(applied) + 1
               within ==
                   /\ msg.type = "json"
                   /\ msg.value.complete
                   /\ msg.value.status \in {"healthy", "warning", "critical"}
                   /\ 0 <= msg.value.latency_ms /\ msg.value.latency_ms <= 10000
                   /\ 0 <= msg.value.error_rate /\ msg.value.error_rate <= 10000
                   /\ 0 <= msg.value.traffic_volume /\ msg.value.traffic_volume <= 100
           IN  /\ reached <=> within
               /\ reached
                    => LET event == applied'[Len(applied')]
                       IN  /\ event.service_id = msg.value.service_id
                           /\ event.status = msg.value.status
                           /\ event.latency_ms = msg.value.latency_ms
                           /\ event.error_rate = msg.value.error_rate
                           /\ event.traffic_volume = msg.value.traffic_volume
                           /\ event.service_id \in DOMAIN services
                                => /\ services'[event.service_id].latency_ms
                                         = msg.value.latency_ms
                                   /\ services'[event.service_id].error_rate
                                         = msg.value.error_rate
                                   /\ services'[event.service_id].traffic_volume
                                         = msg.value.traffic_volume
                                   /\ services'[event.service_id].status
                                         = msg.value.status
               /\ ~reached
                    => /\ applied' = applied
                       /\ UNCHANGED <<services, recent_events, active_incidents>>
               /\ kafka_consumer'.running
               /\ pc'[KafkaTask] = "poll"]_vars

\* the first record polled was dropped, the second, with latency_ms at its
\* upper bound, was applied, and the third, with traffic_volume 101, was
\* dropped again
C26_Witness ==
    /\ now = 3
    /\ Len(applied) = 1
    /\ applied[1].timestamp = ProducerSkew + 1
    /\ applied[1].latency_ms = 10000
    /\ services["ai-brain"].latency_ms = 10000
    /\ polled.type = "json"
    /\ polled.value.traffic_volume = 101
    /\ kafka_consumer.running

-----------------------------------------------------------------------------
(* websocket_endpoint: the receive loop.  job[c].silent counts the time    *)
(* units the current wait_for(receive_text(), timeout=30.0) has waited.     *)

\* wait_for(..., timeout=30.0)
Timeout == 30

\* frames a subscriber's inbox holds before the model stops its clock
MaxFrames == 4

\* a text frame written with websocket.send_text
TextFrame(data) == [type |-> "text", data |-> data]

\* what a subscriber sends: the ping the loop answers, and any other text
ClientTexts == {"ping", "status"}

AfterTimeout_Disconnects(conns, c) == Without(conns, {c})

\* except asyncio.TimeoutError: the branch sends the keepalive and touches
\* nothing of ws_manager
AfterTimeout(conns, c) == conns

\* every subscriber is connected, has its connection_ack and its first
\* state_update, and sits in the receive loop
InitKeepalive ==
    /\ InitEngine
    /\ InitHandlers
    /\ services = InitialServices
    /\ recent_events = <<>>
    /\ applied = <<>>
    /\ active_incidents = 0
    /\ snapshot = NoSnapshot
    /\ returned = NoReturn
    /\ now = 0
    /\ manual = {}
    /\ lastCall = NoCall
    /\ active_connections = [i \in 1..MaxClients |-> <<"client", i>>]
    /\ lockHolder = NoTask
    /\ lockWaiters = <<>>
    /\ pc = [t \in Tasks |-> IF t \in Clients THEN "serving"
                             ELSE IF t \in Broadcasters THEN "ready" ELSE "idle"]
    /\ faulty = {}
    /\ inbox = [c \in Clients |->
                  <<AckMessage(c), StateUpdateMessage(SystemState(InitialServices, 0, 0))>>]
    /\ bcast = [b \in Broadcasters \cup Handlers |-> IdleBroadcast]

\* except WebSocketDisconnect / except Exception: await ws_manager.disconnect(client_id)
EndpointDisconnects(c) ==
    /\ IF Acquires(lockHolder)
       THEN /\ active_connections' = Disconnected(active_connections, c)
            /\ pc' = [pc EXCEPT ![c] = "closed"]
            /\ UNCHANGED lockWaiters
       ELSE /\ lockWaiters' = Append(lockWaiters, c)
            /\ pc' = [pc EXCEPT ![c] = "wait_disconnect"]
            /\ UNCHANGED active_connections
    /\ UNCHANGED lockHolder

\* one time unit passes with nothing received
ReceiveWaits(c) ==
    /\ pc[c] = "serving"
    /\ job[c].silent < Timeout
    /\ Len(inbox[c]) < MaxFrames
    /\ job' = [job EXCEPT ![c].silent = @ + 1]
    /\ UNCHANGED <<smVars, ceVars, wsVars, smLock, lifeVars>>

\* receive_text returns before the timeout: "ping" is answered with "pong",
\* anything else is ignored; the loop calls wait_for again
ReceiveText(c, data) ==
    /\ pc[c] = "serving"
    /\ job[c].silent < Timeout
    /\ Len(inbox[c]) < MaxFrames
    /\ IF data = "ping"
       THEN \E ok \in SendOutcomes(c) :
               IF ok
               THEN /\ inbox' = [inbox EXCEPT ![c] = Append(@, TextFrame("pong"))]
                    /\ job' = [job EXCEPT ![c].silent = 0, ![c].kind = "pong"]
                    /\ UNCHANGED <<active_connections, lockHolder, lockWaiters, pc, faulty>>
               ELSE /\ faulty' = faulty \cup {c}
                    /\ job' = [job EXCEPT ![c].kind = "pong"]
                    /\ EndpointDisconnects(c)
                    /\ UNCHANGED inbox
       ELSE /\ job' = [job EXCEPT ![c].silent = 0, ![c].kind = "received"]
            /\ UNCHANGED <<active_connections, lockHolder, lockWaiters, pc, faulty, inbox>>
    /\ UNCHANGED <<smVars, ceVars, bcast, smLock, lifeVars>>

\* wait_for raises TimeoutError after 30 units: send_text("ping") returns and
\* the loop goes on, or raises and the outer handler disconnects
ReceiveTimeout(c) ==
    /\ pc[c] = "serving"
    /\ job[c].silent = Timeout
    /\ \E ok \in SendOutcomes(c) :
          IF ok
          THEN /\ inbox' = [inbox EXCEPT ![c] = Append(@, TextFrame("ping"))]
               /\ job' = [job EXCEPT ![c].silent = 0, ![c].kind = "keepalive"]
               /\ active_connections' = AfterTimeout(active_connections, c)
               /\ UNCHANGED <<lockHolder, lockWaiters, pc, faulty>>
          ELSE /\ faulty' = faulty \cup {c}
               /\ job' = [job EXCEPT ![c].kind = "keepalive"]
               /\ EndpointDisconnects(c)
               /\ UNCHANGED inbox
    /\ UNCHANGED <<smVars, ceVars, bcast, smLock, lifeVars>>

\* receive_text raises WebSocketDisconnect: the subscriber has left
ReceiveRaises(c) ==
    /\ pc[c] = "serving"
    /\ job' = [job EXCEPT ![c].kind = "left"]
    /\ EndpointDisconnects(c)
    /\ UNCHANGED <<smVars, ceVars, faulty, inbox, bcast, smLock, lifeVars>>

NextKeepalive ==
    \/ \E c \in {Endpoint} : ReceiveWaits(c)
    \/ \E c \in {Endpoint}, data \in ClientTexts : ReceiveText(c, data)
    \/ \E c \in {Endpoint} : ReceiveTimeout(c)
    \/ \E c \in {Endpoint} : ReceiveRaises(c)
    \/ \E c \in Clients : DisconnectGranted(c) /\ SocketsOnly
    \/ \E b \in Broadcasters : BroadcastStart(b) /\ SocketsOnly
    \/ \E b \in Broadcasters : BroadcastSend(b) /\ SocketsOnly

SpecKeepalive == InitKeepalive /\ [][NextKeepalive]_vars

\* the timeout of wait_for is not put off once it is due
FairSpecKeepalive == SpecKeepalive /\ WF_vars(ReceiveTimeout(Endpoint))

\* the wait of c has lasted 30 units and its except TimeoutError branch runs
TimeoutFires(c) ==
    /\ pc[c] = "serving"
    /\ job[c].silent = Timeout
    /\ job'[c].kind = "keepalive"
    /\ job'[c].silent = 0 \/ pc'[c] # "serving"

\* C27: a subscriber that has sent nothing for 30 time units is sent a
\* keepalive ping and stays registered: its wait never lasts longer than 30
\* units, the ping is the next frame written to a socket that still works
\* and the loop waits again.  Silence alone never removes a subscriber: one
\* that leaves the subscriber set has left itself or has a socket that
\* raised on a send.
C27_KeepaliveOnSilence ==
    /\ [][\A c \in Clients :
            /\ (TimeoutFires(c) /\ c \notin faulty')
                  => /\ inbox'[c] = Append(inbox[c], [type |-> "text", data |-> "ping"])
                     /\ c \in SeqToSet(active_connections')
                           <=> c \in SeqToSet(active_connections)
                     /\ pc'[c] = "serving"
            /\ (c \in SeqToSet(active_connections)
                /\ c \notin SeqToSet(active_connections'))
                  => c \in faulty' \/ job'[c].kind = "left"
            /\ job'[c].silent <= 30]_vars
    /\ \A c \in {Endpoint} :
          (pc[c] = "serving" /\ job[c].silent = 30)
             ~> (job[c].silent = 0 \/ pc[c] # "serving")

\* the endpoint was silent for two whole timeouts: two pings are in its
\* inbox, it is registered and waiting again
C27_Witness ==
    /\ pc[Endpoint] = "serving"
    /\ Endpoint \in SeqToSet(active_connections)
    /\ Len(inbox[Endpoint]) = 4
    /\ inbox[Endpoint][3] = [type |-> "text", data |-> "ping"]
    /\ inbox[Endpoint][4] = [type |-> "text", data |-> "ping"]
    /\ job[Endpoint].kind = "keepalive"
    /\ job[Endpoint].silent = 0

-----------------------------------------------------------------------------
(* Claims about requests naming unknown entities or actions *)

\* the request of handler h names an entity outside the registry, or an
\* action outside RemediationAction
NamesUnknown(h) ==
    \/ job[h].kind \in {"remediate", "webhook"} /\ job[h].id \notin DOMAIN SERVICE_POSITIONS
    \/ job[h].kind = "rejected"

\* nothing of the core state has changed since the requests began, and
\* handler h has broadcast nothing
Untouched(h) ==
    /\ services = ServicesAfterEvent(InitialServices, PriorEvent)
    /\ recent_events = <<PriorEvent>>
    /\ active_incidents = 0
    /\ job[h].message = NoMessage
    /\ bcast[h] = IdleBroadcast
    /\ pc[h] \notin {"wait", "send", "raised"}

\* the remediation of a known entity has been applied by handler h
Remediated(h) ==
    /\ job[h].kind = "remediate"
    /\ job[h].id \in DOMAIN SERVICE_POSITIONS
    /\ pc[h] \in {"wait", "send", "done", "raised"}

\* handler h left the entity at the healthy baseline and handed broadcast one
\* remediation_result with success true
RemediationApplied(h) ==
    /\ services[job[h].id].status = HEALTHY
    /\ services[job[h].id].latency_ms = 500
    /\ services[job[h].id].error_rate = 200
    /\ services[job[h].id].traffic_volume = 75
    /\ job[h].message.type = "remediation_result"
    /\ job[h].message.success = TRUE
    /\ job[h].message.service_id = job[h].id
    /\ \A c \in Clients :
          Cardinality({i \in 1..Len(inbox[c]) : inbox[c][i] = job[h].message})
             = IF c \in bcast[h].delivered THEN 1 ELSE 0

\* C28: a control or webhook request naming an entity outside the registry,
\* or an unknown action, changes no ServiceState, no history entry and not
\* active_incidents and causes no broadcast; a remediation naming a known
\* entity sets it to the healthy baseline and broadcasts one
\* remediation_result with success true.
C28_UnknownRejected ==
    \A h \in Handlers :
        /\ NamesUnknown(h) => Untouched(h)
        /\ Remediated(h) => RemediationApplied(h)

\* the part of C28 that apply_remediation keeps
RemediationContract ==
    \A h \in Handlers :
        /\ (job[h].kind \in {"remediate", "rejected"} /\ NamesUnknown(h)) => Untouched(h)
        /\ Remediated(h) => RemediationApplied(h)

\* a remediation of ai-brain went through and reached a subscriber
RemediationDelivered ==
    \E h \in Handlers :
        /\ Remediated(h)
        /\ pc[h] = "done"
        /\ bcast[h].delivered # {}

-----------------------------------------------------------------------------
(* ChaosEngine.run: the loop, its two except branches, stop() and cancel() *)

\* iterations of the loop a run of the model starts
MaxTicks == 3

\* how many of the round's events the callback had taken when the tick
\* raised: none (generate_events raised) or some (a callback raised)
FailPoints == {0, 2}

AfterTickError_Fatal(exc) == "finished"

\* where run goes after an exception inside the try: CancelledError breaks
\* out of the loop, any other Exception is printed and followed by
\* asyncio.sleep(1)
AfterTickError(exc) == IF exc = "CancelledError" THEN "finished" ELSE "backoff"

\* the simulation task has been created and has not run yet
InitRun ==
    /\ InitEngine
    /\ active_connections = <<>>
    /\ lockHolder = NoTask
    /\ lockWaiters = <<>>
    /\ pc = [t \in Tasks |-> IF t = SimulationTask THEN "created" ELSE "absent"]
    /\ faulty = {}
    /\ inbox = [c \in Clients |-> <<>>]
    /\ bcast = [b \in Broadcasters \cup Handlers |-> IdleBroadcast]
    /\ smLock = NoTask
    /\ job = [t \in Handlers \cup Clients |-> NoJob]
    /\ InitLife(DefaultSettings)
    /\ services = InitialServices
    /\ recent_events = <<>>
    /\ active_incidents = 0
    /\ snapshot = NoSnapshot
    /\ returned = NoReturn
    /\ now = 0
    /\ applied = <<>>
    /\ manual = {}
    /\ lastCall = NoCall

\* the tick raises an Exception after the callback has taken k events
RunRaises(k) ==
    /\ pc[SimulationTask] = "callback"
    /\ SimulationTask \notin cancelling
    /\ pc' = [pc EXCEPT ![SimulationTask] = AfterTickError("Exception")]
    /\ LET events == SubSeq(GeneratedEvents(ProducerSkew + now), 1, k)
       IN  IF k = 0
           THEN UNCHANGED <<smVars, fed>>
           ELSE /\ services' = ServicesAfterEvents(services, events)
                /\ recent_events' = HistoryAfterEvents(recent_events, events)
                /\ applied' = applied \o events
                /\ manual' = manual \ {events[i].service_id : i \in 1..k}
                /\ lastCall' = [op |-> "update_from_event", id |-> events[k].service_id,
                                status |-> events[k].status,
                                pre |-> ServicesAfterEvents(services,
                                                            SubSeq(events, 1, k - 1))]
                /\ fed' = [fed EXCEPT ![SimulationTask] = @ + k]
                /\ UNCHANGED <<active_incidents, snapshot, returned, now>>
    /\ UNCHANGED <<ceVars, appVars>>
    /\ UNCHANGED <<active_connections, lockHolder, lockWaiters, faulty, inbox, bcast>>
    /\ UNCHANGED <<generated, running, polled, settings, kafka_consumer, background_tasks, phase,
                   awaited, cancelling, iterations, atCancel>>

\* a sleep of run is over: while self.running
RunWakes ==
    /\ pc[SimulationTask] \in {"sleep", "backoff"}
    /\ SimulationTask \notin cancelling
    /\ iterations[SimulationTask] < MaxTicks
    /\ IF running
       THEN /\ pc' = [pc EXCEPT ![SimulationTask] = "callback"]
            /\ iterations' = [iterations EXCEPT ![SimulationTask] = @ + 1]
       ELSE /\ pc' = [pc EXCEPT ![SimulationTask] = "finished"]
            /\ UNCHANGED iterations
    /\ UNCHANGED <<smVars, ceVars, appVars>>
    /\ UNCHANGED <<active_connections, lockHolder, lockWaiters, faulty, inbox, bcast>>
    /\ UNCHANGED <<generated, running, polled, settings, kafka_consumer, background_tasks, phase,
                   awaited, cancelling, atCancel, fed>>

\* ChaosEngine.stop
EngineStop ==
    /\ running
    /\ running' = FALSE
    /\ UNCHANGED <<smVars, ceVars, wsVars, appVars>>
    /\ UNCHANGED <<generated, polled, settings, kafka_consumer, background_tasks, phase, awaited,
                   cancelling, iterations, atCancel, fed>>

\* task.cancel() on the simulation task, once
RunCancel ==
    /\ atCancel[SimulationTask] < 0
    /\ pc[SimulationTask] \notin Terminal
    /\ CancelRequested(SimulationTask)
    /\ UNCHANGED <<smVars, ceVars, wsVars, appVars>>
    /\ UNCHANGED <<generated, running, polled, settings, kafka_consumer, background_tasks, phase,
                   awaited, iterations, fed>>

NextRun ==
    \/ LoopStarts(SimulationTask)
    \/ SimulationCallback
    \/ \E k \in FailPoints : RunRaises(k)
    \/ RunWakes
    \/ EngineStop
    \/ RunCancel
    \/ TaskCancelled(SimulationTask)

SpecRun == InitRun /\ [][NextRun]_vars

\* a sleep that is over lets the loop go on
FairSpecRun == SpecRun /\ WF_vars(RunWakes)

\* C29: an exception raised while a tick generates or dispatches its events
\* is absorbed: the loop goes to its one-second sleep and then performs a
\* later tick.  While running is true and the task has not been cancelled
\* the loop never ends, however many ticks in a row have failed.
C29_TickErrorsAbsorbed ==
    /\ [](pc[SimulationTask] \in Terminal
            => ~running \/ atCancel[SimulationTask] >= 0)
    /\ [][(pc[SimulationTask] = "callback" /\ pc'[SimulationTask] # "callback"
           /\ SimulationTask \notin cancelling)
           => pc'[SimulationTask] \in {"sleep", "backoff"}]_vars
    /\ ((/\ pc[SimulationTask] = "backoff"
         /\ iterations[SimulationTask] < MaxTicks)
          ~> \/ pc[SimulationTask] = "callback"
             \/ ~running
             \/ atCancel[SimulationTask] >= 0)

\* three ticks in a row have raised, the first two before any event was
\* dispatched and the last after two, and the engine is in its one-second
\* sleep, running and not cancelled
C29_Witness ==
    /\ iterations[SimulationTask] = 3
    /\ fed[SimulationTask] = 2
    /\ pc[SimulationTask] = "backoff"
    /\ running
    /\ atCancel[SimulationTask] < 0

-----------------------------------------------------------------------------
(* ChaosEngine.generate_event: the ranges keyed by status *)

\* LATENCY_RANGES, in ms
LATENCY_RANGES ==
    [s \in ServiceStatus |->
        IF s = HEALTHY THEN <<200, 800>>
        ELSE IF s = WARNING THEN <<1000, 2000>> ELSE <<3000, 6000>>]

\* ERROR_RATE_RANGES, in 1/10000: (0.01, 0.03), (0.05, 0.10), (0.15, 0.80)
ERROR_RATE_RANGES ==
    [s \in ServiceStatus |->
        IF s = HEALTHY THEN <<100, 300>>
        ELSE IF s = WARNING THEN <<500, 1000>> ELSE <<1500, 8000>>]

\* TRAFFIC_VOLUME_RANGES
TRAFFIC_VOLUME_RANGES ==
    [s \in ServiceStatus |->
        IF s = HEALTHY THEN <<60, 100>>
        ELSE IF s = WARNING THEN <<30, 60>> ELSE <<5, 30>>]

\* random.randint(a, b): any integer N with a <= N <= b
Randint(range) == range[1]..range[2]

\* round(random.uniform(a, b), 4), in 1/10000: any multiple from a to b
Uniform4(range) == range[1]..range[2]

\* the values of a range a run of the model draws: its two ends and its middle
Drawn(values, range) ==
    values \cap {range[1], (range[1] + range[2]) \div 2, range[2]}

\* services the model generates events for
GeneratedIds == {"ai-brain", "payment"}

\* generate_event(service_id): the status assigned to the service, turned
\* into warning by the occasional blip of a healthy service, and one draw
\* from each range of that status
GenerateEvent(service_id) ==
    /\ \E blip \in BOOLEAN :
          LET assigned == service_states[service_id]
              status == IF assigned = HEALTHY /\ blip THEN WARNING ELSE assigned
          IN  \E latency_ms \in Drawn(Randint(LATENCY_RANGES[status]),
                                      LATENCY_RANGES[status]),
                 error_rate \in Drawn(Uniform4(ERROR_RATE_RANGES[status]),
                                      ERROR_RATE_RANGES[status]),
                 traffic_volume \in Drawn(Randint(TRAFFIC_VOLUME_RANGES[status]),
                                          TRAFFIC_VOLUME_RANGES[status]) :
                 generated' = [timestamp      |-> ProducerSkew + now,
                               service_id     |-> service_id,
                               status         |-> status,
                               latency_ms     |-> latency_ms,
                               error_rate     |-> error_rate,
                               traffic_volume |-> traffic_volume]
    /\ UNCHANGED <<smVars, ceVars, wsVars, appVars>>
    /\ UNCHANGED <<running, polled, settings, kafka_consumer, background_tasks, phase,
                   awaited, cancelling, iterations, atCancel, fed>>

NextGenerate ==
    \/ SetMode
    \/ \E service_id \in GeneratedIds : GenerateEvent(service_id)

SpecGenerate == InitState /\ [][NextGenerate]_vars

\* an event has been generated
Generated == generated # NoMessage

\* C30: the ranges generate_event draws latency_ms, error_rate and
\* traffic_volume from are pairwise disjoint across the three statuses: no
\* value of a generated event can also be drawn under another status.
C30_RangesDisjoint ==
    Generated
    => \A s \in ServiceStatus \ {generated.status} :
          /\ generated.latency_ms \notin Randint(LATENCY_RANGES[s])
          /\ generated.error_rate \notin Uniform4(ERROR_RATE_RANGES[s])
          /\ generated.traffic_volume \notin Randint(TRAFFIC_VOLUME_RANGES[s])

\* the two fields of C30 whose ranges are disjoint
LatencyAndErrorRateDisjoint ==
    Generated
    => \A s \in ServiceStatus \ {generated.status} :
          /\ generated.latency_ms \notin Randint(LATENCY_RANGES[s])
          /\ generated.error_rate \notin Uniform4(ERROR_RATE_RANGES[s])

\* events of all three statuses are generated
CriticalGenerated == Generated /\ generated.status = CRITICAL /\ generated.traffic_volume = 5

-----------------------------------------------------------------------------
-----------------------------------------------------------------------------
(* C33: the engine's mode is one of steady_state, latency_spike,            *)
(* cascading_failure and recovery in every reachable state, and a set_mode  *)
(* call with any other name raises: it leaves the mode, the assigned        *)
(* statuses and the pending timers exactly as they were                     *)
C33_ModeAlwaysValid ==
    /\ [](mode \in valid_modes)
    /\ []((lastStep.op = "set_mode" /\ lastStep.arg \notin valid_modes)
             => (mode = lastStep.premode /\ service_states = lastStep.pre))
    /\ [][ (lastStep' # lastStep /\ lastStep'.op = "set_mode"
                                 /\ lastStep'.arg \notin valid_modes)
              => UNCHANGED <<mode, service_states, timers>> ]_vars

\* set_mode("meltdown") was called in the middle of a cascade, one callback
\* pending
C33_Witness ==
    /\ lastStep.op = "set_mode"
    /\ lastStep.arg = "meltdown"
    /\ mode = "cascading_failure"
    /\ service_states["payment"] = CRITICAL
    /\ TimerCount(timers) = 1

(* C34: set_mode('latency_spike') sets ai-brain to critical and leaves      *)
(* every other service's assigned status as it was; and a callback that     *)
(* fires while the mode is latency_spike, those left pending by an earlier  *)
(* cascading_failure or recovery included, changes no assigned status and   *)
(* not the mode                                                             *)
C34_LatencySpikeFrame ==
    /\ (lastStep.op = "set_mode" /\ lastStep.arg = "latency_spike")
          => /\ mode = "latency_spike"
             /\ service_states["ai-brain"] = CRITICAL
             /\ \A s \in ServiceIds \ {"ai-brain"} : service_states[s] = lastStep.pre[s]
    /\ (lastStep.op \in Callbacks /\ lastStep.premode = "latency_spike")
          => /\ mode = "latency_spike"
             /\ service_states = lastStep.pre

\* a recovery was replaced by latency_spike while its _complete_recovery was
\* pending, and that callback has now fired under latency_spike
C34_Witness ==
    /\ lastStep.op = "_complete_recovery"
    /\ lastStep.premode = "latency_spike"
    /\ lastStep.stale
    /\ service_states["ai-brain"] = CRITICAL
    /\ service_states["payment"] = WARNING

(* C35: the automatic transition from recovery to steady_state never        *)
(* happens earlier than Delay time-units after the mode last became         *)
(* recovery, whatever set_mode calls were made, leaving recovery and        *)
(* entering it again under a pending _complete_recovery included            *)
C35_RecoveryNotEarly ==
    (lastStep.op = "_complete_recovery" /\ lastStep.premode = "recovery")
        => entered >= Delay

(* C36: in every reachable engine state gateway is assigned healthy and     *)
(* database is not assigned critical: only ai-brain, payment and auth are   *)
(* ever critical                                                            *)
C36_CriticalOnlyThree ==
    /\ service_states["gateway"] = HEALTHY
    /\ service_states["database"] # CRITICAL
    /\ \A s \in ServiceIds :
          service_states[s] = CRITICAL => s \in {"ai-brain", "payment", "auth"}

\* the cascade has run to its last stage: three critical, database in warning
C36_Witness ==
    /\ lastStep.op = "_final_cascade"
    /\ service_states["ai-brain"] = CRITICAL
    /\ service_states["payment"] = CRITICAL
    /\ service_states["auth"] = CRITICAL
    /\ service_states["database"] = WARNING
    /\ service_states["gateway"] = HEALTHY

-----------------------------------------------------------------------------
(* C32: registration, unregistration and fan-out exclude one another on the *)
(* subscriber set.  While a broadcast pass is iterating active_connections  *)
(* the pass holds the lock and no connect or disconnect changes the set     *)
(* (the only change is the pass's own clean-up at its end, and the          *)
(* iteration never finds the dict changed); and the subscribers a pass      *)
(* sends to are exactly those registered when it entered the lock: each of  *)
(* them got the message or had a failing send, and nobody else got it       *)
C32_SubscriberSetExclusive ==
    /\ [](\A b \in Broadcasters :
            /\ pc[b] # "raised"
            /\ pc[b] = "send" =>
                  /\ lockHolder = b
                  /\ active_connections = bcast[b].entry
            /\ pc[b] = "done" =>
                  /\ bcast[b].delivered \cup SeqToSet(bcast[b].disconnected)
                        = SeqToSet(bcast[b].entry)
                  /\ \A c \in Clients :
                        (\E i \in 1..Len(inbox[c]) : inbox[c][i] = BroadcastMessage(b))
                            <=> c \in bcast[b].delivered)
    /\ [][ \A b \in Broadcasters :
              pc[b] = "send" =>
                 \/ active_connections' = active_connections
                 \/ /\ pc'[b] = "done"
                    /\ active_connections'
                          = Prune(active_connections, bcast'[b].disconnected) ]_vars

\* a pass over one subscriber is in progress; that subscriber's disconnect and
\* another client's registration both wait for the lock
C32_Witness ==
    \E b \in Broadcasters, c1, c2 \in Clients :
        /\ pc[b] = "send"
        /\ bcast[b].entry = <<c1>>
        /\ pc[c1] = "wait_disconnect"
        /\ pc[c2] = "wait_register"
        /\ lockWaiters = <<c1, c2>>

-----------------------------------------------------------------------------
(* Two broadcasts at once: broadcast_state_loop calls                       *)
(* broadcast_state_update while a request handler calls broadcast_alert,    *)
(* every client being a subscriber already; subscribers leave at any time   *)
(* and any send fails.                                                      *)

\* the message each of the two calls hands to broadcast
FanoutMessage(h) ==
    IF h = TickTask
    THEN StateUpdateMessage(SystemState(services, active_incidents, now))
    ELSE AlertMessage(AlertPayload("ai-brain"), now)

InitFanout ==
    /\ InitEngine
    /\ InitHandlers
    /\ services = InitialServices
    /\ recent_events = <<>>
    /\ active_incidents = 0
    /\ snapshot = NoSnapshot
    /\ returned = NoReturn
    /\ now = 0
    /\ applied = <<>>
    /\ manual = {}
    /\ lastCall = NoCall
    /\ active_connections = [i \in 1..MaxClients |-> <<"client", i>>]
    /\ lockHolder = NoTask
    /\ lockWaiters = <<>>
    /\ pc = [t \in Tasks |-> IF t \in Clients THEN "connected"
                             ELSE IF t \in Broadcasters THEN "done" ELSE "idle"]
    /\ faulty = {}
    /\ inbox = [c \in Clients |-> <<>>]
    /\ bcast = [b \in Broadcasters \cup Handlers |-> IdleBroadcast]

\* broadcast_state_update(state) / broadcast_alert(alert): build the message
\* and await self.broadcast(message)
FanoutCall(h) ==
    /\ pc[h] = "idle"
    /\ job' = [job EXCEPT ![h] = [NoJob EXCEPT !.kind = "fanout",
                                                 !.message = FanoutMessage(h)]]
    /\ broadcast(h)
    /\ UNCHANGED <<smVars, ceVars, smLock, lifeVars>>
    /\ UNCHANGED <<active_connections, faulty, inbox>>

NextFanout ==
    \/ \E h \in Handlers : FanoutCall(h)
    \/ \E h \in Handlers : BroadcastGranted(h) /\ SocketsOnly
    \/ \E h \in Handlers : BroadcastSend(h) /\ SocketsOnly
    \/ \E c \in Clients : Disconnect(c) /\ SocketsOnly
    \/ \E c \in Clients : DisconnectGranted(c) /\ SocketsOnly

SpecFanout == InitFanout /\ [][NextFanout]_vars

Has(c, m) == \E i \in 1..Len(inbox[c]) : inbox[c][i] = m
Pos(c, m) == CHOOSE i \in 1..Len(inbox[c]) : inbox[c][i] = m

(* C37: of two broadcast calls issued concurrently, one whole fan-out pass  *)
(* completes before the other begins, so every subscriber that gets both    *)
(* messages gets them in the same relative order as every other such        *)
(* subscriber, and a subscriber registered through both passes whose sends  *)
(* succeed gets both                                                        *)
C37_SameOrderEverywhere ==
    \A h1, h2 \in Handlers :
        h1 # h2 =>
            /\ ~(pc[h1] = "send" /\ pc[h2] = "send")
            /\ \A c \in Clients : Has(c, job[h1].message) => Len(inbox[c]) <= 2
            /\ \A c1, c2 \in Clients :
                  ( /\ Has(c1, job[h1].message) /\ Has(c1, job[h2].message)
                    /\ Has(c2, job[h1].message) /\ Has(c2, job[h2].message) )
                  => ( Pos(c1, job[h1].message) < Pos(c1, job[h2].message)
                         <=> Pos(c2, job[h1].message) < Pos(c2, job[h2].message) )
            /\ (pc[h1] = "done" /\ pc[h2] = "done") =>
                  \A c \in SeqToSet(active_connections) :
                      Has(c, job[h1].message) /\ Has(c, job[h2].message)

\* the alert's pass has reached the first subscriber and not yet the second,
\* while the state update, called meanwhile, waits for the lock
C37_Witness ==
    /\ pc[<<"request", 0>>] = "send"
    /\ pc[TickTask] = "wait"
    /\ lockWaiters = <<TickTask>>
    /\ inbox[<<"client", 1>>] = <<job[<<"request", 0>>].message>>
    /\ inbox[<<"client", 2>>] = <<>>
    /\ job[TickTask].message.type = "state_update"

-----------------------------------------------------------------------------
\* the client was registered and is no longer: its disconnect has returned, or
\* a broadcast pass has pruned it (a client id is registered once, by connect)
Removed(c) ==
    /\ c \notin SeqToSet(active_connections)
    /\ pc[c] \notin {"accepting", "wait_register"}

(* C38: once disconnect(id) has returned, or a broadcast pass has pruned    *)
(* id, no later broadcast and no later send_personal delivers anything to   *)
(* that subscriber: send_personal never gets to its send_json for the id,   *)
(* no pass includes it, its channel receives nothing more, and it is never  *)
(* registered again                                                         *)
C38_NothingAfterRemoval ==
    /\ [](\A c \in Clients :
            Removed(c) =>
               /\ pc[c] \notin {"ack_send", "state_send"}
               /\ \A h \in Handlers :
                     pc[h] = "send" => c \notin SeqToSet(bcast[h].entry))
    /\ [][ \A c \in Clients :
              Removed(c) =>
                 /\ inbox'[c] = inbox[c]
                 /\ c \notin SeqToSet(active_connections')
                 /\ pc'[c] \notin {"accepting", "wait_register"} ]_vars

\* a pass of the state loop has pruned the connecting client; its endpoint's
\* send_personal(state_update) has now been granted the lock, and a request's
\* broadcast waits behind it
C38_Witness ==
    /\ Endpoint \in SeqToSet(bcast[TickTask].disconnected)
    /\ Removed(Endpoint)
    /\ pc[Endpoint] = "wait_state"
    /\ lockHolder = Endpoint
    /\ pc[<<"request", 0>>] = "wait"

-----------------------------------------------------------------------------
(* The request handlers of backend/main.py next to the other tasks:         *)
(* process_telemetry_event, POST /api/chaos/mode and GET /api/state run     *)
(* whenever the handler is suspended or between requests.  A task runs      *)
(* until it suspends, so another task's StateManager call starts only when  *)
(* no task is inside or between non-suspending calls (smLock = NoTask).     *)

\* requests served one after the other in a run
MaxRequests == 2

\* the handler has returned its response; the next request arrives
RequestReturns(h) ==
    /\ h[1] = "request"
    /\ pc[h] = "done"
    /\ job[h].served + 1 < MaxRequests
    /\ pc' = [pc EXCEPT ![h] = "idle"]
    /\ job' = [job EXCEPT ![h] = [NoJob EXCEPT !.served = job[h].served + 1]]
    /\ UNCHANGED <<smVars, ceVars, smLock, lifeVars>>
    /\ UNCHANGED <<active_connections, lockHolder, lockWaiters, faulty, inbox, bcast>>

\* process_telemetry_event: state_manager.update_from_event(event), for the
\* events of the service the requests name
Ingest ==
    /\ smLock = NoTask
    /\ now < MaxOps
    /\ now' = now + 1
    /\ \E sample \in EventSamples :
          update_from_event(MakeEvent("ai-brain", sample, ProducerSkew + now))

\* POST /api/chaos/mode/{mode}
ChaosModeRequest == smLock = NoTask /\ SetChaosMode

\* POST /api/chaos/mode/steady_state and /recovery
CalmRequest ==
    /\ smLock = NoTask
    /\ \E m \in {"steady_state", "recovery"} : set_chaos_mode(m)

\* GET /api/state: state_manager.get_system_state()
StateRequest == smLock = NoTask /\ get_system_state

\* a remediation request beside ingestion and mode requests
NextRequests ==
    \/ \E h \in Handlers, id \in RequestIds : RequestStart(h, "remediate", id)
    \/ \E h \in Handlers : RemediateGot(h)
    \/ \E h \in Handlers : RemediateSet(h)
    \/ \E h \in Handlers : BroadcastSend(h) /\ SocketsOnly
    \/ Ingest
    \/ ChaosModeRequest

SpecRequests == InitApp /\ [][NextRequests]_vars

\* alert webhooks and remediations, one request after the other, beside
\* switches to steady_state and recovery and reads of the system state
NextIncidents ==
    \/ \E h \in Handlers, id \in RequestIds : RequestStart(h, "remediate", id)
    \/ \E h \in Handlers, id \in RequestIds : RequestStart(h, "webhook", id)
    \/ \E h \in Handlers : RemediateGot(h)
    \/ \E h \in Handlers : RemediateSet(h)
    \/ \E h \in Handlers : WebhookGot(h)
    \/ \E h \in Handlers : WebhookIncrement(h)
    \/ \E h \in Handlers : WebhookIncremented(h)
    \/ \E h \in Handlers : BroadcastSend(h) /\ SocketsOnly
    \/ \E h \in Handlers : RequestReturns(h)
    \/ CalmRequest
    \/ StateRequest

SpecIncidents == InitApp /\ [][NextIncidents]_vars

\* the step is the locked body of increment_incidents, called by datadog_webhook
WebhookCounts == \E h \in Handlers : pc[h] = "sm_incr" /\ pc'[h] # "sm_incr"

(* C39: in the running application active_incidents never decreases.  Each  *)
(* alert webhook adds exactly one; no other step of any request             *)
(* (a remediation that returns a service to healthy, a switch to            *)
(* steady_state or recovery, ingestion) changes it; and the count a         *)
(* snapshot reports is the count of that moment, never lower than the count *)
(* an earlier snapshot reported                                             *)
C39_IncidentsNeverDecrease ==
    [][ /\ active_incidents' >= active_incidents
        /\ WebhookCounts => active_incidents' = active_incidents + 1
        /\ ~WebhookCounts => active_incidents' = active_incidents
        /\ snapshot' # snapshot =>
              /\ snapshot'.active_incidents = active_incidents
              /\ snapshot'.active_incidents >= snapshot.active_incidents ]_vars

\* an alert was counted, then a remediation returned ai-brain to healthy, and
\* the snapshot taken after it still reports the incident
C39_Witness ==
    /\ active_incidents = 1
    /\ job[<<"request", 0>>].served = 1
    /\ job[<<"request", 0>>].kind = "remediate"
    /\ pc[<<"request", 0>>] = "done"
    /\ services["ai-brain"].status = HEALTHY
    /\ lastCall.op = "get_system_state"
    /\ snapshot.active_incidents = 1
    /\ snapshot.system_integrity = 1000

(* C40: the previous_status a remediation request returns is the status the *)
(* service has in the StateManager at the moment the override to healthy is *)
(* applied, whatever ingestion and control requests run beside the handler  *)
C40_PreviousStatusCurrent ==
    [][ \A h \in Handlers :
           (pc[h] = "sm_set" /\ pc'[h] # "sm_set") =>
              /\ job[h].previous_status = services[job[h].id].status
              /\ job'[h].previous_status = job[h].previous_status
              /\ services'[job[h].id].status = HEALTHY ]_vars

\* the remediation found ai-brain critical and overrode it; while the handler
\* is suspended in its broadcast an event has put ai-brain in warning
C40_Witness ==
    /\ pc[<<"request", 0>>] = "send"
    /\ job[<<"request", 0>>].kind = "remediate"
    /\ job[<<"request", 0>>].previous_status = CRITICAL
    /\ lastCall.op = "update_from_event"
    /\ services["ai-brain"].status = WARNING
    /\ "ai-brain" \notin manual

=============================================================================
